---------------------------- MODULE Spec2Model ----------------------------
(***************************************************************************)
(* Edge routing and stateless authorization of the IMS backend: the API    *)
(* gateway (services/api-gateway/main.py), the token issuer of the         *)
(* auth-service, the token validator (app/core/security.py) and the       *)
(* authorization guard (app/core/dependencies.py) of every service.        *)
(*                                                                         *)
(* Python strings whose characters matter (error messages searched for a   *)
(* substring, role names that are lower-cased, URL paths matched by        *)
(* prefix) are sequences of one-character strings.  JSON values of token   *)
(* claims are tagged records; a claim set is a function whose domain is    *)
(* the set of claims present in the token.                                 *)
(***************************************************************************)
EXTENDS Integers, Sequences, FiniteSets, TLC

VARIABLES users, tok, now, req, resp, routes, tasks, posted, records, calls

vars ==
    <<users, tok, now, req, resp, routes, tasks, posted, records, calls>>

-----------------------------------------------------------------------------
(* Bounds of the model *)

\* the clock runs from 0 to MaxTime (minutes), in steps of TickMinutes
MaxTime == 40
TickMinutes == 20

\* the numbers of the user identifiers USR-000001 .. that registration hands out
MaxUserId == 2

\* the numbers of the identifiers PAT-, IMG- and RPT- of the record services
MaxRecordId == 1

-----------------------------------------------------------------------------
(* Python string helpers *)

UpperOf == [a |-> "A", b |-> "B", c |-> "C", d |-> "D", e |-> "E", f |-> "F",
            g |-> "G", h |-> "H", i |-> "I", j |-> "J", k |-> "K", l |-> "L",
            m |-> "M", n |-> "N", o |-> "O", p |-> "P", q |-> "Q", r |-> "R",
            s |-> "S", t |-> "T", u |-> "U", v |-> "V", w |-> "W", x |-> "X",
            y |-> "Y", z |-> "Z"]

\* str.lower() on one character
LowerChar(c) ==
    IF \E l \in DOMAIN UpperOf : UpperOf[l] = c
    THEN CHOOSE l \in DOMAIN UpperOf : UpperOf[l] = c
    ELSE c

\* str.lower()
Lower(s) == [i \in 1..Len(s) |-> LowerChar(s[i])]

\* str.startswith(prefix)
StartsWith(s, prefix) ==
    /\ Len(prefix) <= Len(s)
    /\ \A i \in 1..Len(prefix) : s[i] = prefix[i]

\* the Python operator "needle in haystack" on strings
Contains(haystack, needle) ==
    \E k \in 0..(Len(haystack) - Len(needle)) :
        \A i \in 1..Len(needle) : haystack[k + i] = needle[i]

-----------------------------------------------------------------------------
(* JSON values and token claims *)

None == [t |-> "null"]
JStr(s) == [t |-> "str", s |-> s]
JBool(b) == [t |-> "bool", b |-> b]
JInt(n) == [t |-> "int", n |-> n]
\* a value that is neither null, nor a string, nor a boolean, nor an integer
JOther == [t |-> "other"]

\* marks a claim that the token does not carry (never a value of a claim)
Missing == [t |-> "missing"]

\* dict.get(key, default)
GetOr(payload, key, default) ==
    IF key \in DOMAIN payload THEN payload[key] ELSE default

\* dict.get(key)
Get(payload, key) == GetOr(payload, key, None)

\* Python truth value of a JSON value ("if v:")
Truthy(v) ==
    CASE v.t = "null" -> FALSE
      [] v.t = "bool" -> v.b
      [] v.t = "int" -> v.n # 0
      [] v.t = "str" -> v.s # <<>>
      [] OTHER -> TRUE

ClaimNames == {"sub", "role", "is_active", "iat", "nbf", "exp", "iss"}

\* the claim set with exactly the claims whose value is not Missing
MkClaims(sub, role, act, iat, nbf, exp, iss) ==
    LET all == [sub |-> sub, role |-> role, is_active |-> act, iat |-> iat,
                nbf |-> nbf, exp |-> exp, iss |-> iss]
    IN  [k \in {c \in ClaimNames : all[c] # Missing} |-> all[k]]

\* settings.SECRET_KEY, the key every service verifies with, and a key of
\* somebody who does not know it
SECRET_KEY == "SECRET_KEY"
WRONG_KEY == "WRONG_KEY"

\* a compact JWS: its claims and the key it was signed with
Jws(claims, key) == [form |-> "jws", claims |-> claims, key |-> key]
\* a bearer string that is not three base64 segments
Garbage == [form |-> "garbage"]
\* no Authorization header (or one that does not start with "Bearer ")
NoToken == [form |-> "none"]

-----------------------------------------------------------------------------
(* jose.jwt.decode as the validators call it: key = SECRET_KEY, one         *)
(* algorithm, no issuer / audience / subject / access_token argument       *)

MSG_SIGNATURE_FAILED == <<"S", "i", "g", "n", "a", "t", "u", "r", "e", " ", "v", "e", "r", "i", "f", "i", "c", "a", "t", "i", "o", "n", " ", "f", "a", "i", "l", "e", "d", ".">>
MSG_EXPIRED == <<"S", "i", "g", "n", "a", "t", "u", "r", "e", " ", "h", "a", "s", " ", "e", "x", "p", "i", "r", "e", "d", ".">>
MSG_SEGMENTS == <<"N", "o", "t", " ", "e", "n", "o", "u", "g", "h", " ", "s", "e", "g", "m", "e", "n", "t", "s">>
MSG_NBF == <<"T", "h", "e", " ", "t", "o", "k", "e", "n", " ", "i", "s", " ", "n", "o", "t", " ", "y", "e", "t", " ", "v", "a", "l", "i", "d", " ", "(", "n", "b", "f", ")">>
MSG_IAT == <<"I", "s", "s", "u", "e", "d", " ", "A", "t", " ", "c", "l", "a", "i", "m", " ", "(", "i", "a", "t", ")", " ", "m", "u", "s", "t", " ", "b", "e", " ", "a", "n", " ", "i", "n", "t", "e", "g", "e", "r", ".">>
MSG_SUB == <<"S", "u", "b", "j", "e", "c", "t", " ", "m", "u", "s", "t", " ", "b", "e", " ", "a", " ", "s", "t", "r", "i", "n", "g", ".">>

S_iss == <<"i", "s", "s">>
S_issuer == <<"i", "s", "s", "u", "e", "r">>
S_mandatory == <<"m", "a", "n", "d", "a", "t", "o", "r", "y">>
S_expired == <<"e", "x", "p", "i", "r", "e", "d">>
S_signature == <<"s", "i", "g", "n", "a", "t", "u", "r", "e">>

\* the options jose starts from; a caller's options override them
JoseDefaults == [verify_signature |-> TRUE, verify_exp |-> TRUE,
                 verify_iat |-> TRUE, verify_nbf |-> TRUE, verify_sub |-> TRUE]

Decoded(payload) == [ok |-> TRUE, payload |-> payload]
JWTError(msg) == [ok |-> FALSE, msg |-> msg]

\* jwt.decode(token, SECRET_KEY, algorithms=[ALGORITHM], options=opts) at
\* time t: the payload, or the JWTError it raises.  The checks run in jose's
\* order: segments, signature, then the claims iat, nbf, exp, sub.
jwt_decode(token, opts, t) ==
    IF token.form # "jws" THEN JWTError(MSG_SEGMENTS)
    ELSE IF opts.verify_signature /\ token.key # SECRET_KEY
         THEN JWTError(MSG_SIGNATURE_FAILED)
    ELSE LET c == token.claims IN
         IF opts.verify_iat /\ "iat" \in DOMAIN c /\ c["iat"].t # "int"
         THEN JWTError(MSG_IAT)
         ELSE IF opts.verify_nbf /\ "nbf" \in DOMAIN c /\ c["nbf"].n > t
         THEN JWTError(MSG_NBF)
         ELSE IF opts.verify_exp /\ "exp" \in DOMAIN c /\ c["exp"].n < t
         THEN JWTError(MSG_EXPIRED)
         ELSE IF opts.verify_sub /\ "sub" \in DOMAIN c /\ c["sub"].t # "str"
         THEN JWTError(MSG_SUB)
         ELSE Decoded(c)


-----------------------------------------------------------------------------
(* Token validators: decode_access_token of each service *)

Services == {"auth", "user", "patient", "staff", "test", "report"}

\* what decode_access_token returns: the payload, or None
Valid(payload) == [ok |-> TRUE, payload |-> payload]
Invalid == [ok |-> FALSE]

\* the issuer string create_access_token writes and the validators expect
ISSUER == "ims-auth-service"

\* options of the first jwt.decode of auth-, user- and medical-test-service
IssFirstOptions == [JoseDefaults EXCEPT !.verify_iat = FALSE]

\* options of their retry after an issuer-related error
IssRetryOptions ==
    [JoseDefaults EXCEPT !.verify_iat = FALSE, !.verify_nbf = FALSE]

\* the manual issuer check after the first decode: reject iff iss is
\* present, not None, and different from ISSUER
IssuerMismatch(payload) ==
    LET iss == Get(payload, "iss") IN iss # None /\ iss # JStr(ISSUER)

\* decode_access_token of auth-service, user-service and
\* medical-test-service (the three are the same code)
IssCheckedDecode(token, t) ==
    IF token.form = "none" THEN Invalid
    ELSE LET first == jwt_decode(token, IssFirstOptions, t) IN
         IF first.ok
         THEN IF IssuerMismatch(first.payload) THEN Invalid
              ELSE Valid(first.payload)
         ELSE IF Contains(Lower(first.msg), S_iss)
                 \/ Contains(Lower(first.msg), S_issuer)
              THEN LET retry == jwt_decode(token, IssRetryOptions, t) IN
                   IF retry.ok THEN Valid(retry.payload) ELSE Invalid
              ELSE Invalid

\* options of the only jwt.decode of medical-staff-service and
\* diagnostic-report-service
PlainOptions == JoseDefaults

\* decode_access_token of medical-staff-service and
\* diagnostic-report-service: signature and expiry only
PlainDecode(token, t) ==
    LET first == jwt_decode(token, PlainOptions, t) IN
    IF first.ok THEN Valid(first.payload) ELSE Invalid

\* options of the first jwt.decode of patient-service
PatientFirstOptions == JoseDefaults

\* the retry with the expiry check relaxed as well
PatientRetryOptionsNoExpiry ==
    [JoseDefaults EXCEPT !.verify_iat = FALSE, !.verify_nbf = FALSE,
                         !.verify_exp = FALSE]

\* options of the second jwt.decode of patient-service
PatientRetryOptions ==
    [JoseDefaults EXCEPT !.verify_iat = FALSE, !.verify_nbf = FALSE]

\* decode_access_token of patient-service: a second decode after an error
\* whose message mentions iss, mandatory, expired or signature
PatientDecode(token, t) ==
    IF token.form = "none" THEN Invalid
    ELSE LET first == jwt_decode(token, PatientFirstOptions, t) IN
         IF first.ok THEN Valid(first.payload)
         ELSE LET error_msg == Lower(first.msg) IN
              IF \/ Contains(error_msg, S_iss)
                 \/ Contains(error_msg, S_mandatory)
                 \/ Contains(error_msg, S_expired)
                 \/ Contains(error_msg, S_signature)
              THEN LET retry == jwt_decode(token, PatientRetryOptions, t) IN
                   IF retry.ok THEN Valid(retry.payload) ELSE Invalid
              ELSE Invalid

\* decode_access_token of service svc
decode_access_token(svc, token, t) ==
    CASE svc \in {"auth", "user", "test"} -> IssCheckedDecode(token, t)
      [] svc \in {"staff", "report"} -> PlainDecode(token, t)
      [] svc = "patient" -> PatientDecode(token, t)

-----------------------------------------------------------------------------
(* Roles and the user table *)

R_admin == <<"a", "d", "m", "i", "n">>
R_patient == <<"p", "a", "t", "i", "e", "n", "t">>
R_radiologist == <<"r", "a", "d", "i", "o", "l", "o", "g", "i", "s", "t">>
R_doctor == <<"d", "o", "c", "t", "o", "r">>
R_cashier == <<"c", "a", "s", "h", "i", "e", "r">>

\* the values of the enumeration UserRole
UserRole == {R_admin, R_patient, R_radiologist, R_doctor, R_cashier}

\* the business identifier "USR-%06d" % n (zero-padded, so the string order
\* of identifiers is the order of their numbers)
UserIdStr(n) == <<"USR-", n>>

\* db.query(User).filter(User.user_id == user_id).first(), user_id a claim
LookupUser(db, user_id) ==
    {u \in db : JStr(UserIdStr(u.user_id)) = user_id}

-----------------------------------------------------------------------------
(* Authorization guards: app/core/dependencies.py of each service *)

D_CREDENTIALS == "Could not validate credentials"
D_NOT_FOUND == "User not found"
D_INACTIVE == "User account is inactive"
D_INACTIVE_CONTACT == "User account is inactive. Please contact administrator."
D_PERMISSIONS == "Not enough permissions"
D_PERMISSIONS_ROLES == "Not enough permissions. Required roles: .., User role: .."

\* raise HTTPException(status_code, detail, headers): challenge tells
\* whether the headers are {"WWW-Authenticate": "Bearer"}
Reject(status, detail, challenge) ==
    [status |-> status, detail |-> detail, challenge |-> challenge,
     ret |-> None]

\* the dependency returns ret and the endpoint body runs
Pass(ret) == [status |-> 200, detail |-> "", challenge |-> FALSE, ret |-> ret]

\* the dict the guards return for the admin principal
AdminDict == [t |-> "admin_dict", user_role |-> R_admin, is_active |-> TRUE]

\* a row of the user table, as a guard returns it
UserObject(u) == [t |-> "user", user |-> u]

\* auth-service get_current_user
auth_get_current_user(token, db, t) ==
    LET d == decode_access_token("auth", token, t) IN
    IF ~d.ok THEN Reject(401, D_CREDENTIALS, TRUE)
    ELSE LET role == Get(d.payload, "role")
             user_id == Get(d.payload, "sub")
         IN  IF role = JStr(R_admin) /\ user_id = None THEN Pass(AdminDict)
             ELSE IF user_id = None THEN Reject(401, D_CREDENTIALS, FALSE)
             ELSE IF LookupUser(db, user_id) = {}
                  THEN Reject(401, D_NOT_FOUND, FALSE)
             ELSE Pass(UserObject(CHOOSE u \in LookupUser(db, user_id) : TRUE))

\* user-service get_current_user
user_get_current_user(token, db, allow_inactive, t) ==
    LET d == decode_access_token("user", token, t) IN
    IF ~d.ok THEN Reject(401, D_CREDENTIALS, TRUE)
    ELSE LET role == Get(d.payload, "role")
             user_id == Get(d.payload, "sub")
         IN  IF role = JStr(R_admin) /\ user_id = None THEN Pass(AdminDict)
             ELSE IF user_id = None THEN Reject(401, D_CREDENTIALS, FALSE)
             ELSE IF LookupUser(db, user_id) = {}
                  THEN Reject(401, D_NOT_FOUND, FALSE)
             ELSE LET user == CHOOSE u \in LookupUser(db, user_id) : TRUE IN
                  IF ~allow_inactive /\ ~user.is_active
                  THEN Reject(403, D_INACTIVE, FALSE)
                  ELSE Pass(UserObject(user))

\* user-service require_role(*allowed_roles): the role is the one of the
\* object get_current_user returned (the user row, or the admin dict)
user_require_role(allowed_roles, token, db, allow_inactive, t) ==
    LET current_user == user_get_current_user(token, db, allow_inactive, t) IN
    IF current_user.status # 200 THEN current_user
    ELSE LET user_role == IF current_user.ret.t = "admin_dict"
                          THEN current_user.ret.user_role
                          ELSE current_user.ret.user.user_role
         IN  IF user_role \notin allowed_roles
             THEN Reject(403, D_PERMISSIONS, FALSE)
             ELSE current_user

\* patient-service get_current_user_id
patient_get_current_user_id(token, allow_inactive, t) ==
    IF token.form = "none" THEN Reject(401, D_CREDENTIALS, TRUE)
    ELSE LET d == decode_access_token("patient", token, t) IN
    IF ~d.ok THEN Reject(401, D_CREDENTIALS, TRUE)
    ELSE LET user_id == Get(d.payload, "sub") IN
         IF user_id = None THEN Reject(401, D_CREDENTIALS, FALSE)
         ELSE IF ~allow_inactive
                 /\ ~Truthy(GetOr(d.payload, "is_active", JBool(TRUE)))
              THEN Reject(403, D_INACTIVE_CONTACT, FALSE)
         ELSE Pass(user_id)

\* patient-service get_current_user: allow_inactive is a parameter, but the
\* function never reads is_active
patient_get_current_user(token, allow_inactive, t) ==
    IF token.form = "none" THEN Reject(401, D_CREDENTIALS, TRUE)
    ELSE LET d == decode_access_token("patient", token, t) IN
    IF ~d.ok THEN Reject(401, D_CREDENTIALS, TRUE)
    ELSE LET role == Get(d.payload, "role")
             user_id == Get(d.payload, "sub")
         IN  IF role = JStr(R_admin) /\ user_id = None THEN Pass(AdminDict)
             ELSE IF user_id = None THEN Reject(401, D_CREDENTIALS, FALSE)
             ELSE Pass(user_id)

\* [role.value if hasattr(role, 'value') else str(role) for role in
\* allowed_roles]: the call sites pass members of UserRole or their values
AllowedRoleValues(allowed_roles) == {JStr(role) : role \in allowed_roles}

\* patient-service require_role(*allowed_roles)
patient_require_role(allowed_roles, token, t) ==
    IF token.form = "none" THEN Reject(401, D_CREDENTIALS, FALSE)
    ELSE LET d == decode_access_token("patient", token, t) IN
    IF ~d.ok THEN Reject(401, D_CREDENTIALS, FALSE)
    ELSE IF ~Truthy(GetOr(d.payload, "is_active", JBool(TRUE)))
         THEN Reject(403, D_INACTIVE_CONTACT, FALSE)
    ELSE LET user_role == Get(d.payload, "role")
             user_id == Get(d.payload, "sub")
         IN  IF user_role \notin AllowedRoleValues(allowed_roles)
             THEN Reject(403, D_PERMISSIONS, FALSE)
             ELSE IF user_role = JStr(R_admin) /\ user_id = None
                  THEN Pass(AdminDict)
             ELSE Pass(user_id)

\* medical-staff-service get_current_user
staff_get_current_user(token, allow_inactive, t) ==
    LET d == decode_access_token("staff", token, t) IN
    IF ~d.ok THEN Reject(401, D_CREDENTIALS, TRUE)
    ELSE LET role == Get(d.payload, "role")
             user_id == Get(d.payload, "sub")
         IN  IF role = JStr(R_admin) /\ user_id = None THEN Pass(AdminDict)
             ELSE IF user_id = None THEN Reject(401, D_CREDENTIALS, FALSE)
             ELSE IF ~allow_inactive
                     /\ ~Truthy(GetOr(d.payload, "is_active", JBool(TRUE)))
                  THEN Reject(403, D_INACTIVE_CONTACT, FALSE)
             ELSE Pass(user_id)

\* medical-staff-service require_role(*allowed_roles)
staff_require_role(allowed_roles, token, t) ==
    LET d == decode_access_token("staff", token, t) IN
    IF ~d.ok THEN Reject(401, D_CREDENTIALS, FALSE)
    ELSE IF ~Truthy(GetOr(d.payload, "is_active", JBool(TRUE)))
         THEN Reject(403, D_INACTIVE_CONTACT, FALSE)
    ELSE LET user_role == Get(d.payload, "role")
             user_id == Get(d.payload, "sub")
         IN  IF user_role \notin AllowedRoleValues(allowed_roles)
             THEN Reject(403, D_PERMISSIONS, FALSE)
             ELSE IF user_role = JStr(R_admin) /\ user_id = None
                  THEN Pass(AdminDict)
             ELSE Pass(user_id)

\* medical-test-service get_current_user_id
test_get_current_user_id(token, allow_inactive, t) ==
    IF token.form = "none" THEN Reject(401, D_CREDENTIALS, TRUE)
    ELSE LET d == decode_access_token("test", token, t) IN
    IF ~d.ok THEN Reject(401, D_CREDENTIALS, TRUE)
    ELSE LET user_id == Get(d.payload, "sub") IN
         IF user_id = None THEN Reject(401, D_CREDENTIALS, FALSE)
         ELSE IF ~allow_inactive
                 /\ ~Truthy(GetOr(d.payload, "is_active", JBool(TRUE)))
              THEN Reject(403, D_INACTIVE_CONTACT, FALSE)
         ELSE Pass(user_id)

\* medical-test-service: str(user_role).lower() if user_role else None
TestNormalizedRole(user_role) ==
    IF Truthy(user_role) THEN JStr(Lower(user_role.s)) ELSE None

\* medical-test-service: [str(role).lower() for role in allowed_roles]
TestAllowedRoleStrings(allowed_roles) ==
    {JStr(Lower(role)) : role \in allowed_roles}

\* medical-test-service require_role(*allowed_roles)
test_require_role(allowed_roles, token, t) ==
    IF token.form = "none" THEN Reject(401, D_CREDENTIALS, TRUE)
    ELSE LET d == decode_access_token("test", token, t) IN
    IF ~d.ok THEN Reject(401, D_CREDENTIALS, FALSE)
    ELSE IF ~Truthy(GetOr(d.payload, "is_active", JBool(TRUE)))
         THEN Reject(403, D_INACTIVE_CONTACT, FALSE)
    ELSE LET user_role == Get(d.payload, "role")
             user_id == Get(d.payload, "sub")
         IN  IF TestNormalizedRole(user_role)
                    \notin TestAllowedRoleStrings(allowed_roles)
             THEN Reject(403, D_PERMISSIONS_ROLES, FALSE)
             ELSE IF user_id = None THEN Reject(401, D_CREDENTIALS, FALSE)
             ELSE Pass(user_id)

\* get_current_user_id telling a bad signature from other invalid tokens
report_get_current_user_id_signature_detail(token, allow_inactive, t) ==
    LET d == decode_access_token("report", token, t) IN
    IF ~d.ok
    THEN Reject(401, IF token.form = "jws" /\ token.key # SECRET_KEY
                     THEN "Signature verification failed" ELSE D_CREDENTIALS, TRUE)
    ELSE LET user_id == Get(d.payload, "sub") IN
         IF user_id = None THEN Reject(401, D_CREDENTIALS, FALSE)
         ELSE IF ~allow_inactive
                 /\ ~Truthy(GetOr(d.payload, "is_active", JBool(TRUE)))
              THEN Reject(403, D_INACTIVE_CONTACT, FALSE)
         ELSE Pass(user_id)

\* diagnostic-report-service get_current_user_id
report_get_current_user_id(token, allow_inactive, t) ==
    LET d == decode_access_token("report", token, t) IN
    IF ~d.ok THEN Reject(401, D_CREDENTIALS, TRUE)
    ELSE LET user_id == Get(d.payload, "sub") IN
         IF user_id = None THEN Reject(401, D_CREDENTIALS, FALSE)
         ELSE IF ~allow_inactive
                 /\ ~Truthy(GetOr(d.payload, "is_active", JBool(TRUE)))
              THEN Reject(403, D_INACTIVE_CONTACT, FALSE)
         ELSE Pass(user_id)

\* diagnostic-report-service require_role(*allowed_roles)
report_require_role(allowed_roles, token, t) ==
    LET d == decode_access_token("report", token, t) IN
    IF ~d.ok THEN Reject(401, D_CREDENTIALS, FALSE)
    ELSE IF ~Truthy(GetOr(d.payload, "is_active", JBool(TRUE)))
         THEN Reject(403, D_INACTIVE_CONTACT, FALSE)
    ELSE IF Get(d.payload, "role") \notin AllowedRoleValues(allowed_roles)
         THEN Reject(403, D_PERMISSIONS, FALSE)
    ELSE Pass(Get(d.payload, "sub"))

\* the services that define each form of the guard
RoleGuardServices == {"user", "patient", "staff", "test", "report"}
UserGuardServices == {"auth", "user", "patient", "staff"}
UserIdGuardServices == {"patient", "test", "report"}

\* require_role(*allowed_roles) of service svc on a request
require_role(svc, allowed_roles, token, db, allow_inactive, t) ==
    CASE svc = "user" ->
             user_require_role(allowed_roles, token, db, allow_inactive, t)
      [] svc = "patient" -> patient_require_role(allowed_roles, token, t)
      [] svc = "staff" -> staff_require_role(allowed_roles, token, t)
      [] svc = "test" -> test_require_role(allowed_roles, token, t)
      [] svc = "report" -> report_require_role(allowed_roles, token, t)

\* get_current_user of service svc on a request
get_current_user(svc, token, db, allow_inactive, t) ==
    CASE svc = "auth" -> auth_get_current_user(token, db, t)
      [] svc = "user" -> user_get_current_user(token, db, allow_inactive, t)
      [] svc = "patient" -> patient_get_current_user(token, allow_inactive, t)
      [] svc = "staff" -> staff_get_current_user(token, allow_inactive, t)

\* get_current_user_id of service svc on a request
get_current_user_id(svc, token, allow_inactive, t) ==
    CASE svc = "patient" ->
             patient_get_current_user_id(token, allow_inactive, t)
      [] svc = "test" -> test_get_current_user_id(token, allow_inactive, t)
      [] svc = "report" -> report_get_current_user_id(token, allow_inactive, t)

-----------------------------------------------------------------------------
(* Requests and responses *)

Idle == [kind |-> "idle"]
NoResponse == [status |-> 0, detail |-> "", challenge |-> FALSE, ret |-> None]

\* the instants the clock takes
Times == {n \in 0..MaxTime : n % TickMinutes = 0}

\* time passes between two requests
Tick ==
    /\ req = Idle
    /\ now + TickMinutes <= MaxTime
    /\ now' = now + TickMinutes
    /\ UNCHANGED <<users, tok, req, resp, routes, tasks, posted, records, calls>>

\* the response has been sent and the background tasks have run: the
\* request is over, nothing of it is kept
Complete ==
    /\ req # Idle
    /\ tasks = <<>>
    /\ req' = Idle
    /\ resp' = NoResponse
    /\ posted' = <<>>
    /\ UNCHANGED <<users, tok, now, routes, tasks, records, calls>>

\* background_tasks.add_task(log_workflow_action_async, user_id, action,
\* entity_type, relevant_id)
Task(user_id, action, entity_type, relevant_id) ==
    [user_id |-> user_id, action |-> action, entity_type |-> entity_type,
     relevant_id |-> relevant_id]

\* what becomes of the notifier's POST to /api/v1/workflow/logs: the log
\* is written (200 or 201), another status comes back, or the call raises
NotifierOutcomes == {"logged", "refused", "raised"}

\* a notifier without the try/except around the call
log_workflow_action_async_unguarded(outcome) ==
    IF outcome = "raised" THEN "raised" ELSE "returned"

\* log_workflow_action_async(user_id, action, entity_type, relevant_id), by
\* what becomes of its POST: a status other than 200 and 201 is printed,
\* an exception is caught and printed; the function returns None
log_workflow_action_async(outcome) == "returned"

\* after the response has been sent the framework runs the next background
\* task of the request: log_workflow_action_async posts the action and
\* swallows a refusal and an exception alike
RunTask ==
    /\ req # Idle
    /\ tasks # <<>>
    /\ tasks' = Tail(tasks)
    /\ \E outcome \in NotifierOutcomes :
         posted' = Append(posted,
                       [task |-> Head(tasks), outcome |-> outcome,
                        result |-> log_workflow_action_async(outcome)])
    /\ UNCHANGED <<users, tok, now, req, resp, routes, records, calls>>

\* a service runs decode_access_token on a bearer token of the set T
Decode(T) ==
    /\ req = Idle
    /\ \E svc \in Services, token \in T :
        /\ req' = [kind |-> "decode", svc |-> svc, token |-> token]
        /\ resp' = decode_access_token(svc, token, now)
    /\ UNCHANGED <<users, tok, now, routes, tasks, posted, records, calls>>

\* the sets of roles a route may allow
AllowedSets == SUBSET {R_admin, R_patient, R_doctor}

\* a request with a bearer token of the set T reaches a route guarded by
\* Depends(require_role(*allowed_roles)), allowed_roles one of the sets A
RequireRole(T, A) ==
    /\ req = Idle
    /\ UNCHANGED <<users, tok, now, routes, tasks, posted, records, calls>>
    /\ \E svc \in RoleGuardServices, token \in T, allowed_roles \in A,
          allow_inactive \in BOOLEAN :
        /\ token.form = "none" => svc \in {"patient", "test"}
        /\ allow_inactive => svc = "user"
        /\ req' = [kind |-> "require_role", svc |-> svc, token |-> token,
                   allowed_roles |-> allowed_roles,
                   allow_inactive |-> allow_inactive]
        /\ resp' = require_role(svc, allowed_roles, token, users,
                                allow_inactive, now)

\* a request with a bearer token of the set T reaches a route guarded by
\* get_current_user, called with allow_inactive
GetCurrentUser(T) ==
    /\ req = Idle
    /\ UNCHANGED <<users, tok, now, routes, tasks, posted, records, calls>>
    /\ \E svc \in UserGuardServices, token \in T, allow_inactive \in BOOLEAN :
        /\ token.form = "none" => svc = "patient"
        /\ allow_inactive => svc # "auth"
        /\ req' = [kind |-> "get_current_user", svc |-> svc, token |-> token,
                   allowed_roles |-> {}, allow_inactive |-> allow_inactive]
        /\ resp' = get_current_user(svc, token, users, allow_inactive, now)

\* a request with a bearer token of the set T reaches a route guarded by
\* get_current_user_id, called with allow_inactive
GetCurrentUserId(T) ==
    /\ req = Idle
    /\ UNCHANGED <<users, tok, now, routes, tasks, posted, records, calls>>
    /\ \E svc \in UserIdGuardServices, token \in T, allow_inactive \in BOOLEAN :
        /\ token.form = "none" => svc \in {"patient", "test"}
        /\ req' = [kind |-> "get_current_user_id", svc |-> svc,
                   token |-> token, allowed_roles |-> {},
                   allow_inactive |-> allow_inactive]
        /\ resp' = get_current_user_id(svc, token, allow_inactive, now)

-----------------------------------------------------------------------------
(* The validators on arbitrary bearer strings *)

R_Admin == <<"A", "d", "m", "i", "n">>
R_Doctor == <<"D", "o", "c", "t", "o", "r">>
OTHER_ISSUER == "other-auth-service"

\* the expiry of a token issued at time 0 (bound of the crafted tokens)
CraftedExp == 30

\* bearer strings a client may send to a validator: any claims, signed with
\* the shared secret or with another key, and a malformed string
DecodeTokens ==
    {Garbage} \cup
    { Jws(MkClaims(sub, role, act, iat, nbf, exp, iss), key) :
        sub \in {Missing, None, JStr(UserIdStr(1))},
        role \in {JStr(R_admin), JStr(R_patient)},
        act \in {JBool(TRUE)},
        iat \in {Missing, JInt(0), JOther},
        nbf \in {Missing, JInt(CraftedExp)},
        exp \in {Missing, JInt(0), JInt(CraftedExp)},
        iss \in {Missing, JStr(ISSUER), JStr(OTHER_ISSUER)},
        key \in {SECRET_KEY, WRONG_KEY} }

\* bearer strings a client may send to a guarded route: the claims the
\* guards read take every shape, the signature and the expiry both values
GuardTokens ==
    {Garbage, NoToken} \cup
    { Jws(MkClaims(sub, role, act, JInt(0), Missing, JInt(CraftedExp), iss),
          key) :
        sub \in {Missing, JStr(UserIdStr(1)), JStr(UserIdStr(2))},
        role \in {Missing, JStr(R_admin), JStr(R_Admin), JStr(R_patient),
                  JStr(R_doctor), JStr(R_Doctor)},
        act \in {Missing, JBool(TRUE), JBool(FALSE)},
        iss \in {Missing, JStr(ISSUER), JStr(OTHER_ISSUER)},
        key \in {SECRET_KEY, WRONG_KEY} }

\* get_password_hash(password): the salted hash is opaque, all that is used
\* of it is that verify_password accepts the password it was made from
get_password_hash(password) == [hash_of |-> password]

\* verify_password(plain_password, hashed_password)
verify_password(plain_password, hashed_password) ==
    /\ plain_password # ""
    /\ hashed_password = get_password_hash(plain_password)

\* a row of the table user_service.users
UserRow(user_id, username, password, user_role, is_active) ==
    [user_id |-> user_id, username |-> username,
     hashed_password |-> get_password_hash(password),
     user_role |-> user_role, is_active |-> is_active]

\* contents of the user table the guards may find: empty, a user as
\* registration leaves it (inactive), the same user activated, and an
\* activated user whose role is admin
GuardDbs ==
    { {}, {UserRow(1, "alice", "pw", R_patient, FALSE)},
      {UserRow(1, "alice", "pw", R_patient, TRUE)},
      {UserRow(1, "alice", "pw", R_admin, TRUE)} }

InitReq ==
    /\ users \in GuardDbs
    /\ tok = NoToken
    /\ now = 0
    /\ req = Idle
    /\ resp = NoResponse
    /\ routes = <<>>
    /\ tasks = <<>>
    /\ posted = <<>>
    /\ records = {}
    /\ calls = <<>>

NextReq ==
    \/ Tick
    \/ Complete
    \/ Decode(DecodeTokens)
    \/ RequireRole(GuardTokens, AllowedSets)
    \/ GetCurrentUser(GuardTokens)
    \/ GetCurrentUserId(GuardTokens)

\* the validators and the guards of every service, on any bearer string
SpecReq == InitReq /\ [][NextReq]_vars

-----------------------------------------------------------------------------
(* Token issuer (auth-service) and user management (user-service) *)

\* settings.ACCESS_TOKEN_EXPIRE_MINUTES
ACCESS_TOKEN_EXPIRE_MINUTES == 30

\* settings.ADMIN_USERNAME and settings.ADMIN_PASSWORD_HASH
ADMIN_USERNAME == "admin"
ADMIN_PASSWORD_HASH == "admin#123"

\* create_access_token(data, expires_delta) at time t: data plus exp, iat
\* and iss, signed with the shared secret
create_access_token(data, expires_delta, t) ==
    Jws([k \in DOMAIN data \cup {"exp", "iat", "iss"} |->
            CASE k = "exp" -> JInt(t + expires_delta)
              [] k = "iat" -> JInt(t)
              [] k = "iss" -> JStr(ISSUER)
              [] OTHER -> data[k]],
        SECRET_KEY)

\* the dict authenticate_user returns for the configured admin pair
AdminUserData ==
    [user_id |-> None, username |-> ADMIN_USERNAME, user_role |-> R_admin,
     is_active |-> TRUE, is_admin |-> TRUE]

\* the dict authenticate_user returns for a row of the user table
RowUserData(user) ==
    [user_id |-> JStr(UserIdStr(user.user_id)), username |-> user.username,
     user_role |-> user.user_role, is_active |-> user.is_active,
     is_admin |-> FALSE]

NoUserData == [user_id |-> None, username |-> "", user_role |-> <<>>,
               is_active |-> FALSE, is_admin |-> FALSE]

\* authenticate_user looking into the table first, the admin pair last
authenticate_user_table_first(db, username, password) ==
    LET rows == {u \in db : u.username = username} IN
    IF rows # {} /\ verify_password(password,
                        (CHOOSE u \in rows : TRUE).hashed_password)
    THEN [found |-> TRUE, data |-> RowUserData(CHOOSE u \in rows : TRUE)]
    ELSE IF username = ADMIN_USERNAME /\ password = ADMIN_PASSWORD_HASH
    THEN [found |-> TRUE, data |-> AdminUserData]
    ELSE [found |-> FALSE, data |-> NoUserData]

\* authenticate_user without the comparison of the password
authenticate_user_any_password(db, username, password) ==
    IF username = ADMIN_USERNAME /\ password = ADMIN_PASSWORD_HASH
    THEN [found |-> TRUE, data |-> AdminUserData]
    ELSE LET rows == {u \in db : u.username = username} IN
         IF rows = {} THEN [found |-> FALSE, data |-> NoUserData]
         ELSE [found |-> TRUE, data |-> RowUserData(CHOOSE u \in rows : TRUE)]

\* authenticate_user(db, username, password): found tells whether it
\* returns user data (data) or None
authenticate_user(db, username, password) ==
    IF username = ADMIN_USERNAME /\ password = ADMIN_PASSWORD_HASH
    THEN [found |-> TRUE, data |-> AdminUserData]
    ELSE LET rows == {u \in db : u.username = username} IN
         IF rows = {} THEN [found |-> FALSE, data |-> NoUserData]
         ELSE LET user == CHOOSE u \in rows : TRUE IN
              IF ~verify_password(password, user.hashed_password)
              THEN [found |-> FALSE, data |-> NoUserData]
              ELSE [found |-> TRUE, data |-> RowUserData(user)]

\* create_access_token_for_user(user_data) at time t: sub is set unless
\* the data is the admin's or has no user_id
create_access_token_for_user(user_data, t) ==
    LET sub == IF ~user_data.is_admin /\ Truthy(user_data.user_id)
               THEN user_data.user_id ELSE Missing
        all == [role |-> JStr(user_data.user_role),
                is_active |-> JBool(user_data.is_active), sub |-> sub]
        token_data == [k \in {c \in DOMAIN all : all[c] # Missing} |-> all[k]]
    IN  create_access_token(token_data, ACCESS_TOKEN_EXPIRE_MINUTES, t)

\* generate_user_id(db): one more than the number of the last identifier,
\* then the next one that is free
generate_user_id(db) ==
    LET ids == {u.user_id : u \in db}
        sequential_num ==
            IF ids = {} THEN 1
            ELSE (CHOOSE m \in ids : \A k \in ids : k <= m) + 1
    IN  CHOOSE n \in sequential_num..(sequential_num + Cardinality(db)) :
            /\ n \notin ids
            /\ \A k \in sequential_num..(n - 1) : k \in ids

\* the inputs of the model
Usernames == {"alice", ADMIN_USERNAME}
Passwords == {"pw", ADMIN_PASSWORD_HASH}
RegisterRoles == {R_admin, R_patient}

\* the role sets of two routes: require_role(UserRole.ADMIN) of
\* user-service and require_role("doctor") of medical-test-service
RouteRoles == {{R_admin}, {R_doctor}}

\* the plain response of an endpoint
Response(status, detail) ==
    [status |-> status, detail |-> detail, challenge |-> FALSE, ret |-> None]

\* POST /api/v1/auth/login: the response carries the access token, and the
\* client keeps it
Login ==
    /\ req = Idle
    /\ UNCHANGED <<users, now, routes, posted, records, calls>>
    /\ \E username \in Usernames, password \in Passwords :
        LET user_data == authenticate_user(users, username, password) IN
        /\ req' = [kind |-> "login", username |-> username,
                   password |-> password]
        /\ IF ~user_data.found
           THEN /\ resp' = [status |-> 401,
                            detail |-> "Incorrect username or password",
                            challenge |-> TRUE, ret |-> None]
                /\ tok' = tok
                /\ tasks' = <<>>
           ELSE LET access_token ==
                        create_access_token_for_user(user_data.data, now)
                    user_id == user_data.data.user_id
                IN  /\ resp' = [status |-> 200, detail |-> "",
                                challenge |-> FALSE, ret |-> access_token]
                    /\ tok' = access_token
                    /\ tasks' = IF Truthy(user_id)
                                THEN <<Task(user_id.s, "User Login", "USER",
                                            user_id.s)>>
                                ELSE <<>>

\* create_user(db, user) behind POST /api/v1/users (public registration);
\* record_ok tells whether the call that creates the patient or medical
\* staff record succeeds.  The row is committed before that call, so the
\* rollback after a failure undoes nothing.
CreateUser ==
    /\ req = Idle
    /\ UNCHANGED <<tok, now, routes, posted, records, calls>>
    /\ \E username \in Usernames, password \in Passwords,
          user_role \in RegisterRoles, record_ok \in BOOLEAN :
        /\ record_ok \/ user_role # R_admin
        /\ generate_user_id(users) <= MaxUserId
        /\ req' = [kind |-> "create_user", username |-> username,
                   password |-> password, user_role |-> user_role,
                   record_ok |-> record_ok]
        /\ IF \E u \in users : u.username = username
           THEN /\ resp' = Response(400, "Username already registered")
                /\ users' = users
                /\ tasks' = <<>>
           ELSE LET db_user == UserRow(generate_user_id(users), username,
                                       password, user_role, FALSE)
                IN  /\ users' = users \cup {db_user}
                    /\ resp' =
                         IF user_role # R_admin /\ ~record_ok
                         THEN Response(500,
                                  "Failed to create role-specific record")
                         ELSE [Response(201, "") EXCEPT
                                  !.ret = UserObject(db_user)]
                    /\ tasks' =
                         IF user_role # R_admin /\ ~record_ok THEN <<>>
                         ELSE <<Task(UserIdStr(db_user.user_id),
                                     "User Registration", "USER",
                                     UserIdStr(db_user.user_id))>>

\* user_update.dict(exclude_unset=True) of the bodies a PUT may carry
UserUpdates ==
    {[user_role |-> r] : r \in RegisterRoles}
    \cup {[is_active |-> b] : b \in BOOLEAN}
    \cup {[user_role |-> r, is_active |-> b] :
             r \in RegisterRoles, b \in BOOLEAN}

\* update_user(db, user_id, user_update) on the row user: every field of
\* the body is set on the row
update_user(user, update_data) ==
    [field \in DOMAIN user |->
        IF field \in DOMAIN update_data THEN update_data[field]
        ELSE user[field]]

\* PUT /api/v1/users/{user_id} with the client's token: the guard is
\* get_current_user in inactive-allowed mode, then the caller must be an
\* admin or the user itself
UpdateUser ==
    /\ req = Idle
    /\ tok # NoToken
    /\ UNCHANGED <<tok, now, routes, posted, records, calls>>
    /\ \E user_id \in {u.user_id : u \in users}, user_update \in UserUpdates,
          current_user \in {user_get_current_user(tok, users, TRUE, now)} :
        LET is_admin == IF current_user.ret.t = "admin_dict" THEN TRUE
                        ELSE current_user.ret.user.user_role = R_admin
            current_user_id == IF current_user.ret.t = "admin_dict" THEN 0
                               ELSE current_user.ret.user.user_id
            target == CHOOSE u \in users : u.user_id = user_id
            result == update_user(target, user_update)
        IN  /\ req' = [kind |-> "update_user", token |-> tok,
                       user_id |-> user_id, user_update |-> user_update]
            /\ IF current_user.status # 200
               THEN /\ resp' = current_user
                    /\ users' = users
                    /\ tasks' = <<>>
               ELSE IF ~is_admin /\ current_user_id # user_id
               THEN /\ resp' = Response(403, D_PERMISSIONS)
                    /\ users' = users
                    /\ tasks' = <<>>
               ELSE /\ users' = (users \ {target}) \cup {result}
                    /\ resp' = [Response(200, "") EXCEPT
                                   !.ret = UserObject(result)]
                    /\ tasks' =
                         IF current_user_id = 0 THEN <<>>
                         ELSE <<Task(UserIdStr(current_user_id),
                                     IF "is_active" \notin DOMAIN user_update
                                     THEN "Update User"
                                     ELSE IF user_update.is_active
                                     THEN "Activate User"
                                     ELSE "Deactivate User",
                                     "USER", UserIdStr(user_id))>>

\* DELETE /api/v1/users/{user_id} with the client's token, guarded by
\* require_role(UserRole.ADMIN)
DeleteUser ==
    /\ req = Idle
    /\ tok # NoToken
    /\ UNCHANGED <<tok, now, routes, posted, records, calls>>
    /\ \E user_id \in {u.user_id : u \in users},
          current_user \in
              {user_require_role({R_admin}, tok, users, FALSE, now)} :
            /\ req' = [kind |-> "delete_user", token |-> tok,
                       user_id |-> user_id]
            /\ IF current_user.status # 200
               THEN /\ resp' = current_user
                    /\ users' = users
                    /\ tasks' = <<>>
               ELSE /\ users' = {u \in users : u.user_id # user_id}
                    /\ resp' = Response(204, "")
                    /\ tasks' =
                         IF current_user.ret.t = "admin_dict" THEN <<>>
                         ELSE <<Task(UserIdStr(current_user.ret.user.user_id),
                                     "Delete User", "USER",
                                     UserIdStr(user_id))>>

Init ==
    /\ users = {}
    /\ tok = NoToken
    /\ now = 0
    /\ req = Idle
    /\ resp = NoResponse
    /\ routes = <<>>
    /\ tasks = <<>>
    /\ posted = <<>>
    /\ records = {}
    /\ calls = <<>>

Next ==
    \/ Tick
    \/ Complete
    \/ RunTask
    \/ Login
    \/ CreateUser
    \/ UpdateUser
    \/ DeleteUser
    \/ RequireRole({tok}, RouteRoles)
    \/ GetCurrentUser({tok})
    \/ GetCurrentUserId({tok})

\* registration, user management, login and guarded requests of a client
\* that keeps the token of its last login
Spec == Init /\ [][Next]_vars

-----------------------------------------------------------------------------
(* Record services: patient-service, medical-image-service and            *)
(* diagnostic-report-service, each on its own table of the shared database *)

\* a framework that would keep the tasks whatever the endpoint does
BackgroundOfAnyOutcome(response, background_tasks) == background_tasks

\* the framework attaches the request's BackgroundTasks to the response the
\* endpoint returns; the response an exception handler builds for a raised
\* HTTPException (or the 500 of an unhandled exception) carries none, so
\* the tasks added before the exception never run
BackgroundOf(response, background_tasks) ==
    IF response.status < 400 THEN background_tasks ELSE <<>>

\* a row of the patients table
Patient(patient_id, user_id, conditions, updated_at) ==
    [entity_type |-> "PATIENT", patient_id |-> patient_id,
     user_id |-> user_id, conditions |-> conditions,
     updated_at |-> updated_at]

\* a row of the medical_images table
MedicalImage(image_id) == [entity_type |-> "IMAGE", image_id |-> image_id]

\* a row of the diagnostic_reports table
DiagnosticReport(report_id, image_id, doctor_id) ==
    [entity_type |-> "REPORT", report_id |-> report_id,
     image_id |-> image_id, doctor_id |-> doctor_id]

\* the business identifiers f"{prefix}-{n:06d}" of the record services
\* ("PAT-", "IMG-", "RPT-")
RecordIdStr(prefix, n) == <<prefix, n>>

\* the rows of one table
Rows(db, entity_type) == {r \in db : r.entity_type = entity_type}

\* patient_update.dict(exclude_unset=True) of the bodies a PUT may carry
PatientUpdates == {<<>>} \cup {[conditions |-> c] : c \in {"none", "asthma"}}

\* the setattr loop of update_patient, then updated_at = utcnow()
update_patient(patient, update_data, t) ==
    [field \in DOMAIN patient |->
        IF field \in DOMAIN update_data THEN update_data[field]
        ELSE IF field = "updated_at" THEN t
        ELSE patient[field]]

\* the ownership check of update_patient_endpoint: the caller is the admin
\* dict, or the user the patient record belongs to
update_patient_permitted(current_user, patient) ==
    LET is_admin == current_user.t = "admin_dict"
        current_user_id == IF is_admin THEN None ELSE current_user
    IN  is_admin \/ current_user_id = JStr(patient.user_id)

\* the same endpoint with update_patient called before the ownership check
UpdatePatientCommitFirst ==
    /\ req = Idle
    /\ tok # NoToken
    /\ UNCHANGED <<users, tok, now, routes, posted, calls>>
    /\ tasks' = <<>>
    /\ \E n \in 1..MaxRecordId, patient_update \in PatientUpdates :
        LET patient_id == RecordIdStr("PAT-", n)
            current_user == patient_get_current_user(tok, FALSE, now)
            found == {r \in Rows(records, "PATIENT") :
                         r.patient_id = patient_id}
            patient == CHOOSE r \in found : TRUE
            result == update_patient(patient, patient_update, now)
        IN  /\ req' = [kind |-> "update_patient", token |-> tok,
                       patient_id |-> patient_id,
                       patient_update |-> patient_update]
            /\ IF current_user.status # 200
               THEN /\ resp' = current_user
                    /\ records' = records
               ELSE IF found = {}
               THEN /\ resp' = Response(404, "Patient not found")
                    /\ records' = records
               ELSE /\ records' = (records \ {patient}) \cup {result}
                    /\ resp' =
                         IF LookupUser(users, JStr(patient.user_id)) = {}
                         THEN Response(404, "User not found for this patient")
                         ELSE IF ~update_patient_permitted(current_user.ret,
                                                           patient)
                         THEN Response(403, D_PERMISSIONS)
                         ELSE [Response(200, "") EXCEPT !.ret = result]

\* PUT /api/v1/patients/{patient_id} with the client's token: the guard is
\* get_current_user, the row is looked up, the ownership is checked, then
\* update_patient commits and reads the patient back with its user
UpdatePatient ==
    /\ req = Idle
    /\ tok # NoToken
    /\ UNCHANGED <<users, tok, now, routes, posted, calls>>
    /\ tasks' = <<>>
    /\ \E n \in 1..MaxRecordId, patient_update \in PatientUpdates :
        LET patient_id == RecordIdStr("PAT-", n)
            current_user == patient_get_current_user(tok, FALSE, now)
            found == {r \in Rows(records, "PATIENT") :
                         r.patient_id = patient_id}
            patient == CHOOSE r \in found : TRUE
            result == update_patient(patient, patient_update, now)
        IN  /\ req' = [kind |-> "update_patient", token |-> tok,
                       patient_id |-> patient_id,
                       patient_update |-> patient_update]
            /\ IF current_user.status # 200
               THEN /\ resp' = current_user
                    /\ records' = records
               ELSE IF found = {}
               THEN /\ resp' = Response(404, "Patient not found")
                    /\ records' = records
               ELSE IF ~update_patient_permitted(current_user.ret, patient)
               THEN /\ resp' = Response(403, D_PERMISSIONS)
                    /\ records' = records
               ELSE /\ records' = (records \ {patient}) \cup {result}
                    /\ resp' =
                         IF LookupUser(users, JStr(patient.user_id)) = {}
                         THEN Response(404, "User not found for this patient")
                         ELSE [Response(200, "") EXCEPT !.ret = result]

\* require_role(*allowed_roles) of medical-image-service: the token is
\* validated (signature, expiry, and the issuer when the claim is there),
\* the caller must be active and its role one of the allowed ones; the
\* admin principal has no business identifier
image_require_role(allowed_roles, token, t) ==
    LET first == IF token.form = "none" THEN JWTError(MSG_SEGMENTS)
                 ELSE jwt_decode(token, PlainOptions, t)
    IN  IF ~first.ok THEN Reject(401, D_CREDENTIALS, TRUE)
        ELSE IF IssuerMismatch(first.payload)
        THEN Reject(401, D_CREDENTIALS, TRUE)
        ELSE IF ~Truthy(GetOr(first.payload, "is_active", JBool(TRUE)))
        THEN Reject(403, D_INACTIVE_CONTACT, FALSE)
        ELSE IF Get(first.payload, "role") \notin
                    AllowedRoleValues(allowed_roles)
        THEN Reject(403, D_PERMISSIONS, FALSE)
        ELSE IF Get(first.payload, "role") = JStr(R_admin)
        THEN Pass(AdminDict)
        ELSE Pass(Get(first.payload, "sub"))

\* DELETE /api/v1/images/{image_id} with the client's token, guarded by
\* require_role("admin", "radiologist"): the notification is added to the
\* background tasks first, then delete_medical_image looks the row up
\* (404), removes the object from the store (errors swallowed), deletes
\* the row and commits (commit_ok)
DeleteImage ==
    /\ req = Idle
    /\ tok # NoToken
    /\ UNCHANGED <<users, tok, now, routes, posted, calls>>
    /\ \E n \in 1..MaxRecordId, commit_ok \in BOOLEAN :
        LET image_id == RecordIdStr("IMG-", n)
            current_user_id ==
                image_require_role({R_admin, R_radiologist}, tok, now)
            background_tasks ==
                <<Task(current_user_id.ret, "Delete Medical Image", "IMAGE",
                       image_id)>>
            found == {r \in Rows(records, "IMAGE") : r.image_id = image_id}
            response ==
                IF found = {} THEN Response(404, "Medical image not found")
                ELSE IF ~commit_ok THEN Response(500, "Internal Server Error")
                ELSE Response(204, "")
        IN  /\ req' = [kind |-> "delete_image", token |-> tok,
                       image_id |-> image_id, commit_ok |-> commit_ok]
            /\ IF current_user_id.status # 200
               THEN /\ resp' = current_user_id
                    /\ records' = records
                    /\ tasks' = <<>>
               ELSE /\ resp' = response
                    /\ records' = IF response.status = 204
                                  THEN records \ found ELSE records
                    /\ tasks' = BackgroundOf(response, background_tasks)

\* generate_report_id(db): one more than the number of the last RPT- row,
\* then the first identifier that is free
generate_report_id(db) ==
    LET nums == {r.report_id[2] : r \in Rows(db, "REPORT")}
    IN  IF nums = {} THEN 1
        ELSE (CHOOSE m \in nums : \A k \in nums : k <= m) + 1

\* POST /api/v1/reports with the client's token, guarded by
\* require_role("radiologist", "doctor"): the caller's staff record gives
\* the doctor_id (else the body's radiologist_id), create_diagnostic_report
\* commits the row (commit_ok), then the notification is added
CreateReport ==
    /\ req = Idle
    /\ tok # NoToken
    /\ UNCHANGED <<users, tok, now, routes, posted, calls>>
    /\ \E n \in 1..MaxRecordId, commit_ok \in BOOLEAN :
        LET image_id == RecordIdStr("IMG-", n)
            current_user_id ==
                report_require_role({R_radiologist, R_doctor}, tok, now)
            report_id == RecordIdStr("RPT-", generate_report_id(records))
            new_report ==
                DiagnosticReport(report_id, image_id, current_user_id.ret)
        IN  /\ generate_report_id(records) <= MaxRecordId
            /\ req' = [kind |-> "create_report", token |-> tok,
                       image_id |-> image_id, commit_ok |-> commit_ok]
            /\ IF current_user_id.status # 200
               THEN /\ resp' = current_user_id
                    /\ records' = records
                    /\ tasks' = <<>>
               ELSE IF ~commit_ok
               THEN /\ resp' = Response(500, "Internal Server Error")
                    /\ records' = records
                    /\ tasks' = <<>>
               ELSE /\ records' = records \cup {new_report}
                    /\ resp' = [Response(201, "") EXCEPT !.ret = new_report]
                    /\ tasks' = <<Task(current_user_id.ret, "Create Report",
                                       "REPORT", report_id)>>

\* bearer strings of the clients of the record services
RecordTokens ==
    {Garbage} \cup
    { Jws(MkClaims(sub, JStr(role), JBool(act), JInt(0), Missing,
                   JInt(CraftedExp), JStr(ISSUER)), key) :
        sub \in {Missing, JStr(UserIdStr(1)), JStr(UserIdStr(2))},
        role \in {R_admin, R_patient, R_radiologist},
        act \in BOOLEAN,
        key \in {SECRET_KEY, WRONG_KEY} }

\* contents of the tables of the record services: empty, or the patient
\* record of user 1 and an image
RecordStores ==
    { {}, {Patient(RecordIdStr("PAT-", 1), UserIdStr(1), "none", 0),
           MedicalImage(RecordIdStr("IMG-", 1))} }

InitRec ==
    /\ users \in {{}, {UserRow(1, "alice", "pw", R_patient, TRUE)}}
    /\ tok \in RecordTokens
    /\ now = 0
    /\ req = Idle
    /\ resp = NoResponse
    /\ routes = <<>>
    /\ tasks = <<>>
    /\ posted = <<>>
    /\ records \in RecordStores
    /\ calls = <<>>

NextRec ==
    \/ Tick
    \/ Complete
    \/ RunTask
    \/ Login
    \/ UpdateUser
    \/ UpdatePatient
    \/ DeleteImage
    \/ CreateReport

\* the clients of the record services, each with a token of its own making
\* or the token of its last login
SpecRec == InitRec /\ [][NextRec]_vars

-----------------------------------------------------------------------------
(* Properties of the validators and the guards *)

GuardKinds == {"require_role", "get_current_user", "get_current_user_id"}

\* the token is a JWS signed with the shared secret
SignedWithSecret(token) == token.form = "jws" /\ token.key = SECRET_KEY

\* the token carries an exp claim that lies before time t
ExpiredAt(token, t) ==
    /\ token.form = "jws"
    /\ "exp" \in DOMAIN token.claims
    /\ token.claims["exp"].n < t

\* the token carries an iss claim other than the issuer's
ForeignIssuer(token) ==
    /\ token.form = "jws"
    /\ "iss" \in DOMAIN token.claims
    /\ token.claims["iss"] # JStr(ISSUER)

\* the signature does not verify, or the expiry is in the past
BadSignatureOrExpired(token, t) ==
    /\ token.form = "jws"
    /\ token.key # SECRET_KEY \/ ExpiredAt(token, t)

\* C1: in every service a token whose signature does not verify against
\* the shared secret, or whose exp is in the past, is Invalid whatever its
\* other claims are (fallback decodes included), and every guard answers
\* 401 to it.
C1_BadSignatureOrExpiredIsInvalid ==
    /\ (req.kind = "decode" /\ BadSignatureOrExpired(req.token, now))
          => resp = Invalid
    /\ (req.kind \in GuardKinds /\ BadSignatureOrExpired(req.token, now))
          => resp.status = 401

\* C1 witness: patient-service, whose second decode runs on an expired
\* token signed with the shared secret, has answered Invalid
C1_Witness ==
    /\ req.kind = "decode"
    /\ req.svc = "patient"
    /\ SignedWithSecret(req.token)
    /\ ExpiredAt(req.token, now)
    /\ resp = Invalid

\* a token the issuer would mint for the admin principal: signed, not
\* expired, issuer absent or right, active, role admin and no sub
AdminToken(token, t) ==
    /\ SignedWithSecret(token)
    /\ ~ExpiredAt(token, t)
    /\ ~ForeignIssuer(token)
    /\ "sub" \notin DOMAIN token.claims
    /\ Get(token.claims, "role") = JStr(R_admin)
    /\ GetOr(token.claims, "is_active", JBool(TRUE)) = JBool(TRUE)

\* C2: in every service require_role(allowed) lets a valid token with
\* role=admin and no sub through when admin is in allowed, and rejects it
\* when admin is not in allowed.
C2_AdminTokenAcceptedIffAdminAllowed ==
    (req.kind = "require_role" /\ AdminToken(req.token, now))
        => (resp.status = 200 <=> R_admin \in req.allowed_roles)

\* the same token with is_active = true
Activated(token) ==
    [token EXCEPT !.claims =
        [k \in DOMAIN token.claims |->
            IF k = "is_active" THEN JBool(TRUE) ELSE token.claims[k]]]

\* the guard of the request, run on another token
SameGuard(r, token) ==
    IF r.kind = "get_current_user"
    THEN get_current_user(r.svc, token, users, r.allow_inactive, now)
    ELSE get_current_user_id(r.svc, token, r.allow_inactive, now)

\* C3: get_current_user / get_current_user_id of every service, not called
\* in inactive-allowed mode, answers 403 to a token whose is_active claim
\* is false and that the same guard accepts once is_active is true.
C3_InactiveTokenRejected ==
    ( /\ req.kind \in {"get_current_user", "get_current_user_id"}
      /\ ~req.allow_inactive
      /\ req.token.form = "jws"
      /\ Get(req.token.claims, "is_active") = JBool(FALSE)
      /\ SameGuard(req, Activated(req.token)).status = 200 )
        => resp.status = 403

\* a token that verifies and says its bearer is active
ValidActiveToken(token, t) ==
    /\ SignedWithSecret(token)
    /\ ~ExpiredAt(token, t)
    /\ ~ForeignIssuer(token)
    /\ GetOr(token.claims, "is_active", JBool(TRUE)) = JBool(TRUE)

\* C4: in every service and for every allowed set, require_role answers
\* 403 to a valid, active token whose role claim is not in the allowed set.
C4_DisallowedRoleForbidden ==
    ( /\ req.kind = "require_role"
      /\ ValidActiveToken(req.token, now)
      /\ Get(req.token.claims, "role") \notin AllowedRoleValues(req.allowed_roles) )
        => resp.status = 403

\* C5: in every service a token with an iss claim other than
\* "ims-auth-service" is Invalid, though it verifies and has not expired.
C5_ForeignIssuerIsInvalid ==
    ( /\ req.kind = "decode"
      /\ SignedWithSecret(req.token)
      /\ ForeignIssuer(req.token) )
        => resp = Invalid

\* C6: require_role reaches the same outcome (authorized, 401 or 403) in
\* every service, for every token and every allowed set.
C6_SameOutcomeInEveryService ==
    req.kind = "require_role" =>
        \A svc \in RoleGuardServices :
            require_role(svc, req.allowed_roles, req.token, users,
                         req.allow_inactive, now).status = resp.status

\* C7: after any sequence of registrations, updates and logins, every
\* token minted by login has no sub claim if and only if its role claim is
\* admin.
C7_SubAbsentIffAdmin ==
    (req.kind = "login" /\ resp.status = 200)
        => ("sub" \notin DOMAIN resp.ret.claims
                <=> resp.ret.claims["role"] = JStr(R_admin))

-----------------------------------------------------------------------------
(* API gateway: services/api-gateway/main.py *)

\* an entry of the dict SERVICE_MAPPINGS; a routing table is the sequence
\* of its entries in insertion order, no two with the same prefix
Route(prefix, url) == [prefix |-> prefix, url |-> url]

SERVICE_MAPPINGS ==
    << Route(<<"/", "a", "p", "i", "/", "v", "1", "/", "a", "u", "t", "h">>,
             "http://auth-service:5001"),
       Route(<<"/", "a", "p", "i", "/", "v", "1", "/", "u", "s", "e", "r", "s">>,
             "http://user-service:5002"),
       Route(<<"/", "a", "p", "i", "/", "v", "1", "/", "p", "a", "t", "i", "e", "n", "t", "s">>,
             "http://patient-service:5003"),
       Route(<<"/", "a", "p", "i", "/", "v", "1", "/", "m", "e", "d", "i", "c", "a", "l", "-", "s", "t", "a", "f", "f">>,
             "http://medical-staff-service:5004"),
       Route(<<"/", "a", "p", "i", "/", "v", "1", "/", "m", "e", "d", "i", "c", "a", "l", "-", "i", "m", "a", "g", "e", "s">>,
             "http://medical-image-service:5005"),
       Route(<<"/", "a", "p", "i", "/", "v", "1", "/", "m", "e", "d", "i", "c", "a", "l", "-", "t", "e", "s", "t", "s">>,
             "http://medical-test-service:5009"),
       Route(<<"/", "a", "p", "i", "/", "v", "1", "/", "d", "i", "a", "g", "n", "o", "s", "t", "i", "c", "-", "r", "e", "p", "o", "r", "t", "s">>,
             "http://diagnostic-report-service:5006"),
       Route(<<"/", "a", "p", "i", "/", "v", "1", "/", "b", "i", "l", "l", "i", "n", "g">>,
             "http://billing-service:5007"),
       Route(<<"/", "a", "p", "i", "/", "v", "1", "/", "w", "o", "r", "k", "f", "l", "o", "w">>,
             "http://workflow-service:5008") >>

\* sorted(..., key=len, reverse=True) keeps the order of keys of the same
\* length, so a key goes after every key at least as long; this variant
\* puts it after every key at most as long (reverse=False)
InsertShortestFirst(sorted, key) ==
    LET n == Cardinality({i \in 1..Len(sorted) : Len(sorted[i]) <= Len(key)})
    IN  SubSeq(sorted, 1, n) \o <<key>> \o SubSeq(sorted, n + 1, Len(sorted))

\* one step of sorted(keys, key=len, reverse=True): key, which follows the
\* keys of sorted in the dict, goes after every key at least as long
InsertLongestFirst(sorted, key) ==
    LET n == Cardinality({i \in 1..Len(sorted) : Len(sorted[i]) >= Len(key)})
    IN  SubSeq(sorted, 1, n) \o <<key>> \o SubSeq(sorted, n + 1, Len(sorted))

\* sorted(SERVICE_MAPPINGS.keys(), key=len, reverse=True)
RECURSIVE sorted_paths(_)
sorted_paths(keys) ==
    IF keys = <<>> THEN <<>>
    ELSE InsertLongestFirst(sorted_paths(SubSeq(keys, 1, Len(keys) - 1)),
                            keys[Len(keys)])

NotFound == [found |-> FALSE]

\* find_target_service(path) over the routing table mappings
find_target_service(mappings, path) ==
    LET normalized == IF ~StartsWith(path, <<"/">>) THEN <<"/">> \o path
                      ELSE path
        sorted == sorted_paths([i \in 1..Len(mappings) |-> mappings[i].prefix])
        hits == {i \in 1..Len(sorted) : StartsWith(normalized, sorted[i])}
    IN  IF hits = {} THEN NotFound
        ELSE LET service_path == sorted[CHOOSE i \in hits :
                                            \A j \in hits : i <= j]
                 entry == CHOOSE k \in 1..Len(mappings) :
                              mappings[k].prefix = service_path
             IN  [found |-> TRUE, base_url |-> mappings[entry].url,
                  path |-> normalized]

\* dict(request.query_params): one item per key, in the order the keys
\* first occur, with the value of the key's last occurrence
RECURSIVE DictOfQuery(_)
DictOfQuery(items) ==
    IF items = <<>> THEN <<>>
    ELSE LET n == Len(items)
             key == items[n][1]
             before == DictOfQuery(SubSeq(items, 1, n - 1))
         IN  IF \E i \in 1..Len(before) : before[i][1] = key
             THEN [i \in 1..Len(before) |->
                     IF before[i][1] = key THEN items[n] ELSE before[i]]
             ELSE Append(before, items[n])

\* the exception classes of httpx, each with its base class
ExceptionBase ==
    [ConnectTimeout |-> "TimeoutException", ReadTimeout |-> "TimeoutException",
     WriteTimeout |-> "TimeoutException", PoolTimeout |-> "TimeoutException",
     TimeoutException |-> "TransportError",
     ConnectError |-> "NetworkError", ReadError |-> "NetworkError",
     WriteError |-> "NetworkError", CloseError |-> "NetworkError",
     NetworkError |-> "TransportError",
     RemoteProtocolError |-> "ProtocolError",
     ProtocolError |-> "TransportError",
     TransportError |-> "RequestError",
     TooManyRedirects |-> "RequestError",
     RequestError |-> "HTTPError",
     HTTPError |-> "Exception",
     ValueError |-> "Exception"]

\* isinstance(e, base) for an exception e of class cls
RECURSIVE IsInstance(_, _)
IsInstance(cls, base) ==
    \/ cls = base
    \/ cls \in DOMAIN ExceptionBase /\ IsInstance(ExceptionBase[cls], base)

GatewayError(status, detail, reason) ==
    [status |-> status, detail |-> detail, reason |-> reason]

\* the handlers with "except Exception" tried first
ForwardingFailureCatchAllFirst(e) ==
    IF IsInstance(e.class, "Exception")
    THEN GatewayError(500, "Gateway error: ", e.message)
    ELSE IF IsInstance(e.class, "TimeoutException")
    THEN GatewayError(504, "Gateway timeout", "")
    ELSE GatewayError(503, "Service unavailable", "")

\* the except clauses of proxy_request, in their order, on the exception e
\* raised by client.request: the HTTPException raised instead
ForwardingFailure(e) ==
    IF IsInstance(e.class, "TimeoutException")
    THEN GatewayError(504, "Gateway timeout", "")
    ELSE IF IsInstance(e.class, "ConnectError")
    THEN GatewayError(503, "Service unavailable", "")
    ELSE GatewayError(500, "Gateway error: ", e.message)

\* the headers proxy_request does not send upstream, and those it does not
\* relay downstream
DroppedRequestHeaders == {"host", "connection", "content-length"}
DroppedResponseHeaders ==
    {"content-encoding", "transfer-encoding", "content-length"}

\* httpx follows at most this many redirects (its default; the client of
\* proxy_request sets no other)
max_redirects == 20

\* the method of the request httpx sends after a redirect with this status
redirect_method(method, status) ==
    IF status \in {302, 303} /\ method # "HEAD" THEN "GET"
    ELSE IF status = 301 /\ method = "POST" THEN "GET"
    ELSE method

\* the request httpx builds from a redirect response: the backend's own
\* redirect (redirect_slashes of the framework) names the same path with a
\* trailing slash and the query it received; the body goes along unless
\* the method has become GET
build_redirect_request(request, status) ==
    LET method == redirect_method(request.method, status)
        to_get == method # request.method /\ method = "GET"
    IN  [method |-> method,
         base_url |-> request.base_url,
         path |-> Append(request.path, "/"),
         params |-> request.params,
         content |-> IF to_get THEN <<>> ELSE request.content,
         headers |-> IF to_get
                     THEN request.headers \ {"content-length", "transfer-encoding"}
                     ELSE request.headers]

\* client.request(..., follow_redirects=True): request goes out and, as
\* long as the backend answers with the redirects of hops, the next one
\* does; history counts the redirects followed. The requests sent, and
\* the response or the exception that ends the call.
RECURSIVE client_request(_, _, _, _)
client_request(request, hops, final, history) ==
    IF history > max_redirects
    THEN [sent |-> <<>>,
          outcome |-> [kind |-> "exception", class |-> "TooManyRedirects",
                       message |-> "Exceeded maximum allowed redirects."]]
    ELSE IF hops = <<>>
    THEN [sent |-> <<request>>, outcome |-> final]
    ELSE LET rest == client_request(build_redirect_request(request, hops[1]),
                                    Tail(hops), final, history + 1)
         IN  [sent |-> <<request>> \o rest.sent, outcome |-> rest.outcome]

\* proxy_request(request, target_url, path): the requests sent upstream and,
\* from what comes back (a response or an exception), the gateway's answer
proxy_request(request, target_url, path, upstream) ==
    LET first == [method |-> request.method,
                  base_url |-> target_url,
                  path |-> path,
                  params |-> DictOfQuery(request.query),
                  content |-> request.body,
                  headers |-> request.headers \ DroppedRequestHeaders]
        call == client_request(first, upstream.hops, upstream, 0)
    IN  IF call.outcome.kind = "response"
        THEN [status |-> call.outcome.status, detail |-> "", reason |-> "",
              body |-> call.outcome.body,
              headers |-> call.outcome.headers \ DroppedResponseHeaders,
              local |-> FALSE, sent |-> call.sent]
        ELSE LET e == ForwardingFailure(call.outcome) IN
             [status |-> e.status, detail |-> e.detail, reason |-> e.reason,
              body |-> <<>>, headers |-> {}, local |-> FALSE,
              sent |-> call.sent]

\* an answer the gateway gives without calling a backend
LocalAnswer(status, detail) ==
    [status |-> status, detail |-> detail, reason |-> "", body |-> <<>>,
     headers |-> {}, local |-> TRUE, sent |-> <<>>]

\* gateway_router(request, path): path is what the route "/{path:path}"
\* captures, the request path without its first slash
gateway_router(mappings, request, upstream) ==
    IF request.path = <<>> \/ request.path = <<"/">>
    THEN LocalAnswer(200, "running")
    ELSE IF request.path = <<"h", "e", "a", "l", "t", "h">>
    THEN LocalAnswer(200, "healthy")
    ELSE LET full_path == IF ~StartsWith(request.path, <<"/">>)
                          THEN <<"/">> \o request.path ELSE request.path
             service_info == find_target_service(mappings, full_path)
         IN  IF ~service_info.found
             THEN [LocalAnswer(404, "Route not found") EXCEPT !.local = FALSE]
             ELSE proxy_request(request, service_info.base_url,
                                service_info.path, upstream)

-----------------------------------------------------------------------------
(* The gateway on any request, over several routing tables *)

\* bounds: entries of a routing table other than SERVICE_MAPPINGS, items
\* of a query string
MaxRoutes == 2
MaxQuery == 2

\* prefixes that overlap: each is a prefix of the next
OverlappingPrefixes == {<<"/", "a">>, <<"/", "a", "b">>, <<"/", "a", "b", "c">>}

\* the backend a prefix is registered for
BackendOf(prefix) ==
    IF Len(prefix) = 2 THEN "http://a-service:1"
    ELSE IF Len(prefix) = 3 THEN "http://ab-service:2"
    ELSE "http://abc-service:3"

\* the sequences of at most n distinct elements of S
DistinctSeqs(S, n) ==
    {q \in UNION {[1..k -> S] : k \in 0..n} :
        \A i, j \in 1..Len(q) : i # j => q[i] # q[j]}

\* the routing tables: the one of the source, and every table of at most
\* MaxRoutes overlapping prefixes, in every insertion order
RoutingTables ==
    {SERVICE_MAPPINGS} \cup
    { [i \in 1..Len(q) |-> Route(q[i], BackendOf(q[i]))] :
        q \in DistinctSeqs(OverlappingPrefixes, MaxRoutes) }

Methods == {"GET", "POST", "PUT", "DELETE", "PATCH", "OPTIONS"}

P_login == <<"a", "p", "i", "/", "v", "1", "/", "a", "u", "t", "h", "/", "l", "o", "g", "i", "n">>
P_unknown == <<"a", "p", "i", "/", "v", "1", "/", "u", "n", "k", "n", "o", "w", "n", "-", "t", "h", "i", "n", "g">>
P_images == <<"a", "p", "i", "/", "v", "1", "/", "m", "e", "d", "i", "c", "a", "l", "-", "i", "m", "a", "g", "e", "s", "/", "7">>

\* request paths, as "/{path:path}" captures them
Paths ==
    { <<>>, <<"/">>, <<"h", "e", "a", "l", "t", "h">>, <<"a">>, <<"a", "b">>,
      <<"a", "b", "c", "d">>, <<"b">>, <<"/", "a", "b">>, P_login, P_unknown, P_images }

\* query strings: sequences of key/value items, keys may repeat
QueryItems == {<<"a", "1">>, <<"a", "2">>, <<"b", "1">>}
Queries == UNION {[1..n -> QueryItems] : n \in 0..MaxQuery}

\* body bytes with the headers that come with them
Payloads ==
    { [body |-> <<>>, headers |-> {"host", "authorization"}],
      [body |-> <<123, 0, 125>>,
       headers |-> {"host", "connection", "content-length", "content-type",
                    "authorization"}] }

\* the exception classes client.request raises on a failure of the
\* transport or of the call
RaisedClasses ==
    {"ConnectTimeout", "ReadTimeout", "WriteTimeout", "PoolTimeout",
     "ConnectError", "ReadError", "RemoteProtocolError", "ValueError"}

\* a backend that answers every request with a redirect
RedirectLoop == [i \in 1..(max_redirects + 1) |-> 307]

\* the redirects a backend answers with before its last answer
RedirectHops == {<<307>>, <<302>>, RedirectLoop}

\* the last answers of a backend: a response or a failure
FinalOutcomes ==
    { [kind |-> "response", status |-> st, body |-> <<79, 75>>,
       headers |-> {"content-type", "content-length", "content-encoding"}] :
        st \in {200, 500} }
    \cup { [kind |-> "exception", class |-> c, message |-> "reason"] :
             c \in RaisedClasses }

\* the final outcome f, reached after the redirects of hops
AfterHops(f, hops) ==
    [k \in DOMAIN f \cup {"hops"} |-> IF k = "hops" THEN hops ELSE f[k]]

\* what comes back from the backend: an answer at once, or redirects and
\* then a response or a timeout, or redirects without end
UpstreamOutcomes ==
    {AfterHops(f, <<>>) : f \in FinalOutcomes}
    \cup {AfterHops(f, hops) :
            f \in {g \in FinalOutcomes :
                     \/ g.kind = "response" /\ g.status = 200
                     \/ g.kind = "exception" /\ g.class = "ReadTimeout"},
            hops \in RedirectHops \ {RedirectLoop}}
    \cup {AfterHops([kind |-> "response", status |-> 307, body |-> <<>>,
                     headers |-> {"location", "content-length"}],
                    RedirectLoop)}

\* no backend is called
NotContacted == [kind |-> "none"]

\* the request is one the gateway forwards
Forwarded(mappings, path) ==
    /\ path \notin {<<>>, <<"/">>, <<"h", "e", "a", "l", "t", "h">>}
    /\ find_target_service(mappings, path).found

\* a client request reaches the catch-all route of the gateway
GatewayRequest ==
    /\ req = Idle
    /\ UNCHANGED <<users, tok, now, routes, tasks, posted, records, calls>>
    /\ \E method \in Methods, path \in Paths, query \in Queries,
          payload \in Payloads,
          upstream \in UpstreamOutcomes \cup {NotContacted} :
        LET request == [method |-> method, path |-> path, query |-> query,
                        body |-> payload.body, headers |-> payload.headers]
        IN  /\ upstream = NotContacted <=> ~Forwarded(routes, path)
            /\ req' = [kind |-> "gateway", request |-> request,
                       upstream |-> upstream]
            /\ resp' = gateway_router(routes, request, upstream)

InitGw ==
    /\ users = {}
    /\ tok = NoToken
    /\ now = 0
    /\ req = Idle
    /\ resp = NoResponse
    /\ routes \in RoutingTables
    /\ tasks = <<>>
    /\ posted = <<>>
    /\ records = {}
    /\ calls = <<>>

NextGw == GatewayRequest \/ Complete

SpecGw == InitGw /\ [][NextGw]_vars

-----------------------------------------------------------------------------
(* Properties of the gateway *)

\* the path find_target_service works on
Normalized(path) == IF StartsWith(path, <<"/">>) THEN path ELSE <<"/">> \o path

\* the entries of the table whose prefix is a literal prefix of the path
MatchingEntries(mappings, path) ==
    {i \in 1..Len(mappings) : StartsWith(path, mappings[i].prefix)}

\* the backend of the longest prefix that matches the path
LongestMatchBackend(mappings, path) ==
    LET m == MatchingEntries(mappings, path)
        i == CHOOSE i \in m :
                 \A j \in m : Len(mappings[i].prefix) >= Len(mappings[j].prefix)
    IN  mappings[i].url

\* the tables with the same entries, configured in any order
Reorderings(mappings) ==
    {t \in RoutingTables :
        {t[i] : i \in 1..Len(t)} = {mappings[i] : i \in 1..Len(mappings)}}

\* the gateway has sent the request upstream
Routed == req.kind = "gateway" /\ resp.sent # <<>>

\* C8: for any routing table and any path, when two or more configured
\* prefixes are literal prefixes of the normalized path,
\* find_target_service selects the backend of the longest one, in whatever
\* order the prefixes were configured; the request goes to that backend.
C8_LongestPrefixWins ==
    req.kind = "gateway" =>
        LET path == Normalized(req.request.path) IN
        Cardinality(MatchingEntries(routes, path)) >= 2 =>
            /\ \A t \in Reorderings(routes) :
                   /\ find_target_service(t, path).found
                   /\ find_target_service(t, path).base_url
                          = LongestMatchBackend(routes, path)
            /\ Routed => resp.sent[1].base_url = LongestMatchBackend(routes, path)

\* C8 witness: a request was routed whose path two configured prefixes
\* match, the shorter one configured first
C8_Witness ==
    /\ Routed
    /\ Len(routes) = 2
    /\ MatchingEntries(routes, Normalized(req.request.path)) = {1, 2}
    /\ Len(routes[1].prefix) < Len(routes[2].prefix)
    /\ resp.sent[1].base_url = routes[2].url

\* C9: for every routed request with method GET, POST, PUT, DELETE or
\* PATCH, the request sent upstream has the client's method, the full
\* original path, the client's query parameters (every key/value pair,
\* repeated keys included) and the client's body bytes.
C9_UpstreamRequestEqualsClientRequest ==
    (Routed /\ req.request.method \in {"GET", "POST", "PUT", "DELETE", "PATCH"})
        => /\ resp.sent[1].method = req.request.method
           /\ resp.sent[1].path = <<"/">> \o req.request.path
           /\ resp.sent[1].params = req.request.query
           /\ resp.sent[1].content = req.request.body

\* the exceptions of httpx that are timeouts, and the one that is a failure
\* to connect
TimeoutClasses == {"ConnectTimeout", "ReadTimeout", "WriteTimeout", "PoolTimeout"}
ConnectionFailureClasses == {"ConnectError"}

\* C10: when forwarding fails, a timeout gives 504, a connection failure
\* gives 503, and any other exception gives 500 with the failure reason in
\* the body; no forwarding failure gives another status.
C10_FailureKindDeterminesStatus ==
    /\ (req.kind = "gateway" /\ req.upstream.kind = "exception") =>
        /\ req.upstream.class \in TimeoutClasses => resp.status = 504
        /\ req.upstream.class \in ConnectionFailureClasses => resp.status = 503
        /\ req.upstream.class \notin TimeoutClasses \cup ConnectionFailureClasses
              => resp.status = 500 /\ resp.reason = req.upstream.message
        /\ resp.status \in {500, 503, 504}
    /\ \* the failure httpx raises itself, on redirects without end
       ( /\ req.kind = "gateway"
         /\ req.upstream.kind = "response"
         /\ Len(req.upstream.hops) > max_redirects )
           => resp.status = 500 /\ resp.reason # ""

\* C10 witness: a connect timeout was answered 504, or a failure to
\* connect 503, or a protocol error 500
C10_Witness ==
    /\ req.kind = "gateway"
    /\ req.upstream.kind = "exception"
    /\ \/ req.upstream.class = "ConnectTimeout" /\ resp.status = 504
       \/ req.upstream.class = "ConnectError" /\ resp.status = 503
       \/ req.upstream.class = "RemoteProtocolError" /\ resp.status = 500

\* C11: for each client request the gateway issues at most one request to
\* a backend, whatever comes back (success, error status, redirect,
\* timeout, connection failure); it never sends the request again.
C11_AtMostOneUpstreamRequest ==
    req.kind = "gateway" => Len(resp.sent) <= 1

\* the path of the client's request: what the route captures, after the
\* first slash
OriginalPath(request) == <<"/">> \o request.path

\* the paths gateway_router answers itself, as the route captures them
InterceptedPaths == {<<>>, <<"/">>, <<"h", "e", "a", "l", "t", "h">>}

\* C12: for every path, other than the intercepted ones, of which no
\* configured prefix is a literal prefix, the gateway answers 404 and sends
\* no request to any backend.
C12_UnmatchedPathNotFound ==
    ( /\ req.kind = "gateway"
      /\ req.request.path \notin InterceptedPaths
      /\ MatchingEntries(routes, OriginalPath(req.request)) = {} )
        => resp.status = 404 /\ resp.sent = <<>>

\* the same on the path the router works on (the captured path, given one
\* leading slash if it has none): when no configured prefix is a literal
\* prefix of it, the gateway answers 404 and sends no request to any
\* backend.
UnmatchedNormalizedPathNotFound ==
    ( /\ req.kind = "gateway"
      /\ req.request.path \notin InterceptedPaths
      /\ MatchingEntries(routes, Normalized(req.request.path)) = {} )
        => resp.status = 404 /\ resp.sent = <<>>

\* C13: the gateway answers a request itself, with the liveness payload,
\* exactly when it is GET / or GET /health, and never proxies such a
\* request; every other request goes through the routing table.
C13_LocalAnswerIffGetRootOrHealth ==
    req.kind = "gateway" =>
        /\ resp.local <=>
             ( /\ req.request.method = "GET"
               /\ OriginalPath(req.request)
                    \in {<<"/">>, <<"/", "h", "e", "a", "l", "t", "h">>} )
        /\ resp.local => resp.sent = <<>>

-----------------------------------------------------------------------------
(* Properties of login *)

\* the credentials of the request are the configured admin pair
AdminPair(r) ==
    r.username = ADMIN_USERNAME /\ r.password = ADMIN_PASSWORD_HASH

\* C14: login with the configured admin username and password yields a
\* token with no sub, role admin and is_active true, whatever the user
\* table contains (an account with the same username included).
C14_AdminLoginYieldsAdminToken ==
    (req.kind = "login" /\ AdminPair(req)) =>
        /\ resp.status = 200
        /\ resp.ret.form = "jws"
        /\ "sub" \notin DOMAIN resp.ret.claims
        /\ resp.ret.claims["role"] = JStr(R_admin)
        /\ resp.ret.claims["is_active"] = JBool(TRUE)

\* C14 witness: the admin pair was used while the table holds an account
\* with the admin's username and the admin's password
C14_Witness ==
    /\ req.kind = "login"
    /\ AdminPair(req)
    /\ \E u \in users : /\ u.username = ADMIN_USERNAME
                        /\ u.hashed_password.hash_of = ADMIN_PASSWORD_HASH
    /\ resp.status = 200

\* the accounts with the username of the request whose stored hash was
\* made from the password of the request
MatchingAccounts(r) ==
    {u \in users : /\ u.username = r.username
                   /\ r.password # ""
                   /\ u.hashed_password.hash_of = r.password}

\* C15: for credentials other than the admin pair, login issues a token
\* if and only if an account with the username exists and the password
\* matches its stored hash; otherwise it answers 401, issues no token and
\* schedules no notification; the token issued carries the account's
\* business identifier, role and stored is_active.
C15_LoginIffAccountAndPassword ==
    (req.kind = "login" /\ ~AdminPair(req)) =>
        /\ resp.status = 200 <=> MatchingAccounts(req) # {}
        /\ MatchingAccounts(req) = {} =>
             /\ resp.status = 401
             /\ resp.ret = None
             /\ tasks = <<>>
             /\ posted = <<>>
        /\ \A u \in MatchingAccounts(req) :
             /\ resp.ret.form = "jws"
             /\ Get(resp.ret.claims, "sub") = JStr(UserIdStr(u.user_id))
             /\ Get(resp.ret.claims, "role") = JStr(u.user_role)
             /\ Get(resp.ret.claims, "is_active") = JBool(u.is_active)

\* C15 witness: a login with the right username and a wrong password was
\* answered 401
C15_Witness ==
    /\ req.kind = "login"
    /\ ~AdminPair(req)
    /\ \E u \in users : u.username = req.username
    /\ MatchingAccounts(req) = {}
    /\ resp.status = 401

\* C16: once a guard has accepted a token on a route, a later request
\* with the same token to the same route before its exp is accepted too,
\* whatever happens in between (deactivation, role change, deletion, other
\* logins): no step other than the expiry turns the token the client holds
\* from accepted into rejected, for get_current_user of every service and
\* for the role-gated routes.
C16_AcceptedTokenStaysAccepted ==
    [][ tok.form = "jws" /\ ~ExpiredAt(tok, now') =>
          /\ \A svc \in UserGuardServices :
               get_current_user(svc, tok, users, FALSE, now).status = 200
                 => get_current_user(svc, tok, users', FALSE, now').status = 200
          /\ \A svc \in RoleGuardServices, allowed_roles \in RouteRoles :
               require_role(svc, allowed_roles, tok, users, FALSE, now).status
                   = 200
                 => require_role(svc, allowed_roles, tok, users', FALSE,
                                 now').status = 200 ]_vars

-----------------------------------------------------------------------------
(* Properties of the rejections *)

\* the token of the request is missing, or the validator of the service
\* finds it Invalid (malformed, wrong signature, expired, wrong issuer)
FailsValidation(r, t) ==
    \/ r.token.form = "none"
    \/ decode_access_token(r.svc, r.token, t) = Invalid

\* C17: every guard rejection caused by a missing, invalid or expired
\* token, in get_current_user, get_current_user_id and require_role of
\* every service, has status 401 and carries WWW-Authenticate: Bearer.
C17_UnauthenticatedCarriesChallenge ==
    (req.kind \in GuardKinds /\ FailsValidation(req, now))
        => resp.status = 401 /\ resp.challenge

\* the guard of the request r, run on another token
GuardOutcome(r, token) ==
    IF r.kind = "require_role"
    THEN require_role(r.svc, r.allowed_roles, token, users, r.allow_inactive,
                      now)
    ELSE SameGuard(r, token)

\* C18: on a given guarded route the response (status, detail, headers) is
\* the same for any two tokens that fail validation, whether the check
\* that fails is the signature, the expiry, the form or the issuer: each
\* token the validator of the service rejects gets the response a
\* malformed token gets.
C18_FailingTokensIndistinguishable ==
    ( /\ req.kind \in GuardKinds
      /\ req.token.form # "none"
      /\ decode_access_token(req.svc, req.token, now) = Invalid )
        => resp = GuardOutcome(req, Garbage)

\* C18 witness: a guard of a service that checks the issuer has rejected a
\* well-signed, unexpired token of another issuer
C18_Witness ==
    /\ req.kind \in GuardKinds
    /\ req.svc = "test"
    /\ SignedWithSecret(req.token)
    /\ ~ExpiredAt(req.token, now)
    /\ ForeignIssuer(req.token)
    /\ resp.status = 401

-----------------------------------------------------------------------------
(* Properties of the side effects *)

\* a request is answered in this step
Answered == req = Idle /\ req' # Idle

\* C19: a request answered 401 or 403, by the guard dependency or by the
\* ownership check of the endpoint, leaves the user table and the tables of
\* the record services as they were and schedules no workflow notification
C19_RejectedRequestHasNoEffect ==
    [][(Answered /\ resp'.status \in {401, 403})
           => (users' = users /\ records' = records /\ tasks' = <<>>)]_vars

\* the ownership check of update_patient_endpoint has refused the holder
\* of a valid token the patient record of another user, which is still
\* there as it was
C19_Witness ==
    /\ req.kind = "update_patient"
    /\ resp.status = 403
    /\ "conditions" \in DOMAIN req.patient_update
    /\ \E r \in Rows(records, "PATIENT") :
         /\ r.patient_id = req.patient_id
         /\ r.conditions # req.patient_update.conditions
         /\ JStr(r.user_id) # Get(req.token.claims, "sub")

\* the statuses of a primary action that completed
SuccessStatuses == {200, 201, 204}

\* C20: the notifier's call for a request is made only once the response
\* of that request is there, and only when the response tells that the
\* primary action completed; the call changes neither the response nor
\* the request it belongs to
C20_NotifierAfterSuccessfulResponse ==
    [][posted' # posted /\ posted' # <<>>
           => /\ req # Idle
              /\ resp # NoResponse
              /\ resp.status \in SuccessStatuses
              /\ resp' = resp
              /\ req' = req]_vars

\* the notification of a deleted image has been posted after the 204
C20_Witness ==
    /\ req.kind = "delete_image"
    /\ resp.status = 204
    /\ posted # <<>>
    /\ posted[1].task.action = "Delete Medical Image"
    /\ Rows(records, "IMAGE") = {}

-----------------------------------------------------------------------------
(* Properties of the notifier *)

\* the notifier has just finished a call that did not log the action
NotifierFailed ==
    /\ Len(posted') = Len(posted) + 1
    /\ posted'[Len(posted')].outcome # "logged"

\* C21: a notifier call that times out, cannot connect or is answered with
\* a status other than 200 and 201 returns normally, and the status and the
\* body of the response of the request that triggered it stay what they
\* were
C21_NotifierFailureSwallowed ==
    [][NotifierFailed
           => /\ posted'[Len(posted')].result = "returned"
              /\ resp' = resp
              /\ resp.status \in SuccessStatuses]_vars

\* the notification of a created report raised, and the 201 with the
\* report is still the response
C21_Witness ==
    /\ req.kind = "create_report"
    /\ posted # <<>>
    /\ posted[1].outcome = "raised"
    /\ resp.status = 201
    /\ resp.ret \in Rows(records, "REPORT")

-----------------------------------------------------------------------------
(* Workflow logging: the notifier's POST through the gateway to            *)
(* workflow-service, with several requests in flight                       *)

\* the requests in flight at the same time
MaxCalls == 2

\* the largest amount of a bill and of a payment
MaxAmount == 2

\* str.upper()
Upper(s) ==
    [i \in 1..Len(s) |->
        IF s[i] \in DOMAIN UpperOf THEN UpperOf[s[i]] ELSE s[i]]

\* the values of the enum EntityType
EntityType ==
    { <<"U", "S", "E", "R">>, <<"P", "A", "T", "I", "E", "N", "T">>,
      <<"R", "E", "P", "O", "R", "T">>, <<"B", "I", "L", "L">>,
      <<"M", "E", "D", "I", "C", "A", "L", "_", "T", "E", "S", "T">>,
      <<"I", "M", "A", "G", "E">>, <<"N", "O", "N", "E">> }

\* a row of the workflow_logs table; call is the request it was written for
WorkflowLog(log_id, user_id, action, entity_type, relevant_id, call) ==
    [entity_type |-> "LOG", log_id |-> log_id, user_id |-> user_id,
     action |-> action, log_entity_type |-> entity_type,
     relevant_id |-> relevant_id, call |-> call]

\* generate_log_id(db): one more than the number of the last LOG- row,
\* then the first identifier that is free
generate_log_id(db) ==
    LET nums == {r.log_id[2] : r \in Rows(db, "LOG")}
    IN  IF nums = {} THEN 1
        ELSE (CHOOSE m \in nums : \A k \in nums : k <= m) + 1

\* an endpoint that would also queue a task that generates an id of its own
workflow_background_tasks_twice(user_id, log_data, entity_type_enum, log_id) ==
    << [user_id |-> user_id, action |-> log_data.action,
        entity_type |-> entity_type_enum,
        relevant_id |-> log_data.relevant_id, log_id |-> log_id],
       [user_id |-> user_id, action |-> log_data.action,
        entity_type |-> entity_type_enum,
        relevant_id |-> log_data.relevant_id, log_id |-> None] >>

\* background_tasks.add_task(create_workflow_log_async, user_id,
\* log_data.action, entity_type_enum, log_data.relevant_id, log_id)
workflow_background_tasks(user_id, log_data, entity_type_enum, log_id) ==
    << [user_id |-> user_id, action |-> log_data.action,
        entity_type |-> entity_type_enum,
        relevant_id |-> log_data.relevant_id, log_id |-> log_id] >>

\* create_workflow_log_endpoint(log_data) on a request without an
\* Authorization header (the notifier sends none): the user_id is the one
\* of the body, the entity type is converted, the log_id is generated from
\* the table as it is now and the insert is left to a background task
create_workflow_log_endpoint(db, log_data) ==
    LET current_user_id == None
        user_id == IF Truthy(current_user_id) THEN current_user_id
                   ELSE log_data.user_id
        entity_type_enum ==
            IF ~Truthy(log_data.entity_type) THEN None
            ELSE IF Upper(log_data.entity_type.s) \in EntityType
            THEN JStr(Upper(log_data.entity_type.s))
            ELSE None
        log_id == JStr(RecordIdStr("LOG-", generate_log_id(db)))
    IN  IF user_id = None
        THEN [status |-> 400, log_id |-> None, user_id |-> None,
              action |-> "", entity_type |-> None, background |-> <<>>]
        ELSE [status |-> 201, log_id |-> log_id, user_id |-> user_id,
              action |-> log_data.action, entity_type |-> entity_type_enum,
              background |->
                  workflow_background_tasks(user_id, log_data,
                                            entity_type_enum, log_id)]

\* the bodies of POST /api/v1/workflow/logs
WorkflowLogCreate ==
    [user_id : {None, JStr(UserIdStr(1)), JStr(UserIdStr(2))},
     action : {"User Login", "Create Report"},
     entity_type : {None, JStr(<<"r", "e", "p", "o", "r", "t">>),
                    JStr(<<"x">>)},
     relevant_id : {None}]

\* what the notifier's call meets: the gateway cannot be reached, the
\* gateway cannot reach workflow-service, or the endpoint runs
Reachability == {"gateway_down", "workflow_down", "up"}

\* a request that has not been made yet
NoCall ==
    [pc |-> "idle", log_data |-> None, posts |-> 0, sent |-> 0,
     response |-> None, background |-> <<>>, timed_out |-> FALSE]

\* the path the route "/{path:path}" of the gateway captures from the URL
\* f"{api_gateway_url}/api/v1/workflow/logs"
WorkflowLogsPath ==
    Tail(SERVICE_MAPPINGS[9].prefix) \o <<"/", "l", "o", "g", "s">>

\* log_workflow_action_async posts log_data for request i: one client.post,
\* which the gateway forwards to workflow-service; the endpoint runs once
\* for every request the gateway sends.  timed_out: the notifier's five
\* seconds end before the gateway's answer, and the gateway goes on
PostWorkflowLog(i) ==
    /\ calls[i].pc = "idle"
    /\ UNCHANGED <<users, tok, now, req, resp, routes, tasks, posted, records>>
    /\ \E log_data \in WorkflowLogCreate, reach \in Reachability,
          timed_out \in BOOLEAN :
        LET endpoint == create_workflow_log_endpoint(records, log_data)
            upstream ==
                IF reach = "workflow_down"
                THEN [kind |-> "exception", class |-> "ConnectError",
                      message |-> "reason", hops |-> <<>>]
                ELSE [kind |-> "response", status |-> endpoint.status,
                      body |-> <<>>, headers |-> {"content-type"},
                      hops |-> <<>>]
            request == [method |-> "POST", path |-> WorkflowLogsPath,
                        query |-> <<>>, body |-> <<123, 125>>,
                        headers |-> {"host", "content-type"}]
            answer == gateway_router(SERVICE_MAPPINGS, request, upstream)
            ran == reach = "up" /\ Len(answer.sent) > 0
        IN  /\ timed_out => reach = "up"
            /\ calls' =
                 [calls EXCEPT ![i] =
                    [pc |-> IF ran /\ endpoint.background # <<>>
                            THEN "responded" ELSE "done",
                     log_data |-> log_data,
                     posts |-> 1,
                     sent |-> IF reach = "gateway_down" THEN 0
                              ELSE Len(answer.sent),
                     response |-> IF reach = "gateway_down" THEN None
                                  ELSE IF ran THEN endpoint
                                  ELSE [endpoint EXCEPT
                                           !.status = answer.status,
                                           !.log_id = None,
                                           !.background = <<>>],
                     background |-> IF ran THEN endpoint.background
                                    ELSE <<>>,
                     timed_out |-> timed_out]]

\* create_workflow_log_async(user_id, action, entity_type, relevant_id,
\* log_id), the next background task of request i: a row with the log_id
\* handed over is added and committed (the primary key refuses a log_id
\* that is in the table; commit_ok: nothing else fails); without a log_id
\* create_workflow_log generates one.  An exception is printed.
CreateWorkflowLogAsync(i) ==
    /\ calls[i].pc = "responded"
    /\ UNCHANGED <<users, tok, now, req, resp, routes, tasks, posted>>
    /\ \E commit_ok \in BOOLEAN :
        LET task == Head(calls[i].background)
            log_id == IF Truthy(task.log_id) THEN task.log_id.s
                      ELSE RecordIdStr("LOG-", generate_log_id(records))
            db_log == WorkflowLog(log_id, task.user_id, task.action,
                                  task.entity_type, task.relevant_id, i)
            taken == \E r \in Rows(records, "LOG") : r.log_id = log_id
        IN  /\ records' = IF commit_ok /\ ~taken
                          THEN records \cup {db_log} ELSE records
            /\ calls' =
                 [calls EXCEPT
                    ![i].background = Tail(calls[i].background),
                    ![i].pc = IF Tail(calls[i].background) = <<>>
                              THEN "done" ELSE "responded"]

InitWf ==
    /\ users = {}
    /\ tok = NoToken
    /\ now = 0
    /\ req = Idle
    /\ resp = NoResponse
    /\ routes = <<>>
    /\ tasks = <<>>
    /\ posted = <<>>
    /\ records \in {{}, {WorkflowLog(RecordIdStr("LOG-", 1),
                                     JStr(UserIdStr(1)), "User Login",
                                     None, None, 0)}}
    /\ calls = [i \in 1..MaxCalls |-> NoCall]

NextWf ==
    \/ \E i \in 1..MaxCalls : PostWorkflowLog(i)
    \/ \E i \in 1..MaxCalls : CreateWorkflowLogAsync(i)

\* notifications of several requests, handled by workflow-service at the
\* same time
SpecWf == InitWf /\ [][NextWf]_vars

-----------------------------------------------------------------------------
(* Properties of workflow logging *)

\* the workflow events written for request i
EventsOf(db, i) == {r \in Rows(db, "LOG") : r.call = i}

\* C22: a triggering request causes at most one POST by the notifier, at
\* most one request of the gateway to workflow-service and at most one
\* workflow event; a notification that is over is never taken up again: it
\* posts nothing more, and one that left no event never gets one
C22_NotificationAtMostOnce ==
    [][\A i \in 1..MaxCalls :
          /\ calls'[i].posts <= 1
          /\ calls'[i].sent <= 1
          /\ Cardinality(EventsOf(records', i)) <= 1
          /\ calls[i].pc = "done"
                => /\ calls'[i] = calls[i]
                   /\ EventsOf(records', i) = EventsOf(records, i)]_vars

\* one notification was answered 201 and its event was lost in the
\* background task; the other one was answered 201 and has its event
C22_Witness ==
    \E i, j \in 1..MaxCalls :
        /\ calls[i].pc = "done" /\ calls[j].pc = "done"
        /\ calls[i].response # None /\ calls[i].response.status = 201
        /\ EventsOf(records, i) = {}
        /\ Cardinality(EventsOf(records, j)) = 1

\* C24: the log_id of a 201 response is the log_id of no other request's
\* workflow event: the row that carries it was written for the request the
\* response belongs to
C24_ReturnedLogIdIsOwnEvent ==
    \A i \in 1..MaxCalls :
        (/\ calls[i].pc = "done"
         /\ calls[i].response # None
         /\ calls[i].response.status = 201)
        => \A r \in Rows(records, "LOG") :
              r.log_id = calls[i].response.log_id.s => r.call = i

-----------------------------------------------------------------------------
(* Properties of registration and of the user's own account *)

\* C23: after a create_user that failed because the role-specific record
\* could not be created (500), no row with the username of the request is
\* in the user table
C23_FailedRegistrationLeavesNoUser ==
    (req.kind = "create_user" /\ resp.status = 500)
        => ~\E u \in users : u.username = req.username

-----------------------------------------------------------------------------
(* Billing: POST /api/v1/billing/payments, with several requests in flight *)

\* a row of the bills table
Bill(bill_id, patient_id, total_amount, status, due_date) ==
    [entity_type |-> "BILL", bill_id |-> bill_id, patient_id |-> patient_id,
     total_amount |-> total_amount, status |-> status,
     due_date |-> due_date]

\* a row of the payments table; call is the request it was written for
Payment(payment_id, bill_id, amount, cashier_id, call) ==
    [entity_type |-> "PAYMENT", payment_id |-> payment_id,
     bill_id |-> bill_id, amount |-> amount, cashier_id |-> cashier_id,
     call |-> call]

\* generate_payment_id(db): one more than the number of the last PAY- row,
\* then the first identifier that is free
generate_payment_id(db) ==
    LET nums == {r.payment_id[2] : r \in Rows(db, "PAYMENT")}
    IN  IF nums = {} THEN 1
        ELSE (CHOOSE m \in nums : \A k \in nums : k <= m) + 1

\* require_role(*allowed_roles) of billing-service: the contract of the
\* guard, as for medical-image-service
billing_require_role(allowed_roles, token, t) ==
    image_require_role(allowed_roles, token, t)

\* sum(float(p.amount) for p in payments)
RECURSIVE SumAmounts(_)
SumAmounts(payments) ==
    IF payments = {} THEN 0
    ELSE LET p == CHOOSE q \in payments : TRUE
         IN  p.amount + SumAmounts(payments \ {p})

\* db.query(Payment).filter(Payment.bill_id == bill_id).all()
PaymentsOf(db, bill_id) ==
    {p \in Rows(db, "PAYMENT") : p.bill_id = bill_id}

\* update_bill_status_if_overdue(db, bill), by the status it leaves: an
\* open bill whose due date has passed becomes overdue
update_bill_status_if_overdue(bill_status, due_date, t) ==
    IF bill_status \notin {"paid", "cancelled"} /\ due_date # 0
       /\ t > due_date
    THEN "overdue" ELSE bill_status

\* total_paid + float(payment.amount) > float(bill.total_amount)
payment_exceeds(total_paid, amount, total_amount) ==
    total_paid + amount > total_amount

\* a request that has not been made yet
NoPayment ==
    [pc |-> "idle", token |-> NoToken, bill_id |-> <<>>, amount |-> 0,
     user_role |-> None, current_user_id |-> None, cashier_id |-> None,
     total_paid |-> 0, bill_status |-> "", payment_id |-> <<>>,
     response |-> NoResponse, background |-> <<>>]

\* the bearer tokens of the clients of billing-service: two patients and a
\* cashier, and a string that is no token
BillingTokens ==
    {Garbage} \cup
    { Jws(MkClaims(JStr(UserIdStr(n)), JStr(role), JBool(TRUE), JInt(0),
                   Missing, JInt(CraftedExp), JStr(ISSUER)), SECRET_KEY) :
        n \in 1..2, role \in {R_patient, R_cashier} }

\* the amounts of a payment
Amounts == 1..MaxAmount

\* create_payment_endpoint(payment) up to the check of create_payment: the
\* guard require_role("cashier", "patient"), the role read from the token,
\* the cashier's staff_id asked from medical-staff-service (staff_found),
\* get_bill with its overdue update, the payments of the bill as they are
\* now, and the comparison with the bill's total
BeginPayment(i) ==
    /\ calls[i].pc = "idle"
    /\ UNCHANGED <<users, tok, now, req, resp, routes, tasks, posted>>
    /\ \E token \in BillingTokens, amount \in Amounts,
          staff_found \in BOOLEAN :
        LET bill_id == RecordIdStr("BILL-", 1)
            current_user_id ==
                billing_require_role({R_cashier, R_patient}, token, now)
            user_role == IF token.form = "jws"
                         THEN Get(token.claims, "role") ELSE None
            cashier_id == IF user_role = JStr(R_cashier) /\ staff_found
                          THEN JStr(RecordIdStr("STF-", 1)) ELSE None
            found == {b \in Rows(records, "BILL") : b.bill_id = bill_id}
            bill == CHOOSE b \in found : TRUE
            bill_status ==
                update_bill_status_if_overdue(bill.status, bill.due_date, now)
            total_paid == SumAmounts(PaymentsOf(records, bill_id))
            started == [NoPayment EXCEPT
                           !.token = token, !.bill_id = bill_id,
                           !.amount = amount]
        IN  /\ staff_found => user_role = JStr(R_cashier)
            /\ IF current_user_id.status # 200
               THEN /\ calls' = [calls EXCEPT ![i] =
                          [started EXCEPT !.pc = "done",
                                          !.response = current_user_id]]
                    /\ records' = records
               ELSE IF found = {}
               THEN /\ calls' = [calls EXCEPT ![i] =
                          [started EXCEPT
                              !.pc = "done",
                              !.response = Response(404, "Bill not found")]]
                    /\ records' = records
               ELSE /\ records' = (records \ {bill})
                                  \cup {[bill EXCEPT !.status = bill_status]}
                    /\ calls' = [calls EXCEPT ![i] =
                          IF payment_exceeds(total_paid, amount,
                                             bill.total_amount)
                          THEN [started EXCEPT
                                   !.pc = "done",
                                   !.user_role = user_role,
                                   !.current_user_id = current_user_id.ret,
                                   !.response =
                                      Response(400,
                                         "Payment amount exceeds bill total")]
                          ELSE [started EXCEPT
                                   !.pc = "checked",
                                   !.user_role = user_role,
                                   !.current_user_id = current_user_id.ret,
                                   !.cashier_id = cashier_id,
                                   !.total_paid = total_paid,
                                   !.bill_status = bill_status]]

\* payment_id = generate_payment_id(db), from the table as it is now
GeneratePaymentId(i) ==
    /\ calls[i].pc = "checked"
    /\ UNCHANGED <<users, tok, now, req, resp, routes, tasks, posted, records>>
    /\ generate_payment_id(records) <= MaxCalls + 1
    /\ calls' = [calls EXCEPT
                    ![i].payment_id =
                        RecordIdStr("PAY-", generate_payment_id(records)),
                    ![i].pc = "generated"]

\* the rest of create_payment and of the endpoint: the row is added, the
\* bill becomes paid when the total read at the check plus the amount
\* reaches the bill's total, or overdue when its date has passed, and the
\* session commits; the primary key refuses a payment_id that is in the
\* table (500, nothing written).  Then the notification is added and the
\* payment returned.
CommitPayment(i) ==
    /\ calls[i].pc = "generated"
    /\ UNCHANGED <<users, tok, now, req, resp, routes, tasks, posted>>
    /\ LET c == calls[i]
           bill == CHOOSE b \in Rows(records, "BILL") : b.bill_id = c.bill_id
           db_payment == Payment(c.payment_id, c.bill_id, c.amount,
                                 c.cashier_id, i)
           taken == \E p \in Rows(records, "PAYMENT") :
                       p.payment_id = c.payment_id
           total_paid_after == c.total_paid + c.amount
           new_status ==
               IF total_paid_after >= bill.total_amount THEN "paid"
               ELSE LET s == update_bill_status_if_overdue(c.bill_status,
                                                           bill.due_date, now)
                    IN  IF s # c.bill_status THEN s ELSE bill.status
       IN  IF taken
           THEN /\ records' = records
                /\ calls' = [calls EXCEPT
                      ![i].pc = "done",
                      ![i].response = Response(500, "Internal Server Error")]
           ELSE /\ records' = ((records \ {bill})
                               \cup {[bill EXCEPT !.status = new_status]})
                              \cup {db_payment}
                /\ calls' = [calls EXCEPT
                      ![i].pc = "done",
                      ![i].response = [Response(201, "") EXCEPT
                                          !.ret = db_payment],
                      ![i].background =
                          <<Task(c.current_user_id, "Create Payment", "BILL",
                                 c.bill_id)>>]

InitBill ==
    /\ users = {}
    /\ tok = NoToken
    /\ now = 0
    /\ req = Idle
    /\ resp = NoResponse
    /\ routes = <<>>
    /\ tasks = <<>>
    /\ posted = <<>>
    /\ \E total_amount \in Amounts, due_date \in {0, TickMinutes} :
         records = {Patient(RecordIdStr("PAT-", 1), UserIdStr(1), "none", 0),
                    Patient(RecordIdStr("PAT-", 2), UserIdStr(2), "none", 0),
                    Bill(RecordIdStr("BILL-", 1), RecordIdStr("PAT-", 1),
                         total_amount, "pending", due_date)}
    /\ calls = [i \in 1..MaxCalls |-> NoPayment]

NextBill ==
    \/ Tick
    \/ \E i \in 1..MaxCalls : BeginPayment(i)
    \/ \E i \in 1..MaxCalls : GeneratePaymentId(i)
    \/ \E i \in 1..MaxCalls : CommitPayment(i)

\* payments on one bill, requested by patients and cashiers at the same time
SpecBill == InitBill /\ [][NextBill]_vars

-----------------------------------------------------------------------------
(* Properties of billing *)

\* the patient records of the user a token names
PatientIdsOf(db, token) ==
    {p.patient_id : p \in {q \in Rows(db, "PATIENT") :
                             JStr(q.user_id) = Get(token.claims, "sub")}}

\* C25: a payment requested with a patient's token is recorded only on a
\* bill of that patient's own record
C25_PatientPaysOwnBillsOnly ==
    \A p \in Rows(records, "PAYMENT") :
        calls[p.call].user_role = JStr(R_patient)
        => \E b \in Rows(records, "BILL") :
              /\ b.bill_id = p.bill_id
              /\ b.patient_id \in PatientIdsOf(records, calls[p.call].token)

\* C26: the payments recorded for a bill never add up to more than the
\* bill's total, and the bill is paid once they add up to it
C26_PaymentsWithinTotal ==
    \A b \in Rows(records, "BILL") :
        LET paid == SumAmounts(PaymentsOf(records, b.bill_id)) IN
        /\ paid <= b.total_amount
        /\ paid >= b.total_amount => b.status = "paid"

-----------------------------------------------------------------------------
(* A client without the admin credentials *)

\* POST /api/v1/users/reset-password (public): the account is looked up by
\* its username (404), the email of the body must be the account's
\* (email_matches, else 400), then the password is replaced
ResetPassword ==
    /\ req = Idle
    /\ UNCHANGED <<tok, now, routes, posted, records, calls>>
    /\ tasks' = <<>>
    /\ \E username \in Usernames, new_password \in Passwords,
          email_matches \in BOOLEAN :
        LET found == {u \in users : u.username = username}
            user == CHOOSE u \in found : TRUE
        IN  /\ req' = [kind |-> "reset_password", username |-> username,
                       new_password |-> new_password,
                       email_matches |-> email_matches]
            /\ IF found = {}
               THEN /\ resp' = Response(404, "User not found")
                    /\ users' = users
               ELSE IF ~email_matches
               THEN /\ resp' = Response(400,
                                   "Email does not match the username")
                    /\ users' = users
               ELSE /\ users' = (users \ {user}) \cup
                         {[user EXCEPT !.hashed_password =
                                          get_password_hash(new_password)]}
                    /\ resp' = Response(200,
                                   "Password reset successfully")

NextPub ==
    \/ Tick
    \/ Complete
    \/ RunTask
    \/ Login /\ ~AdminPair(req')
    \/ CreateUser
    \/ UpdateUser
    \/ ResetPassword
    \/ DeleteUser

\* registration, login, the update of one's own profile, password reset
\* and the admin-only DELETE /api/v1/users/{user_id}, for a client that
\* never logs in with the configured admin username and password
SpecPub == Init /\ [][NextPub]_vars

\* C27: the admin-only guard never accepts the token of a client that has
\* not logged in with the admin credentials
C27_NoAdminWithoutAdminCredentials ==
    req.kind = "delete_user" => resp.status \in {401, 403}

\* on a user's own row: a PUT by a user who is not an admin leaves its
\* user_role other than admin and does not turn its is_active from false
\* to true
OwnRoleAndActivationKept ==
    [][(Answered /\ req'.kind = "update_user" /\ resp'.status = 200)
          => \A u \in users : \A v \in users' :
                (/\ u.user_id = v.user_id
                 /\ JStr(UserIdStr(u.user_id)) = Get(req'.token.claims, "sub")
                 /\ u.user_role # R_admin)
                => /\ v.user_role # R_admin
                   /\ u.is_active \/ ~v.is_active]_vars


-----------------------------------------------------------------------------
(* Routes that declare a guard with Depends(...) *)

\* the raw values a request may give the query parameter allow_inactive;
\* Missing stands for a request without it
AllowInactiveParams ==
    {Missing, JStr("true"), JStr("1"), JStr("false"), JStr("maybe")}

\* the value given to a parameter declared `allow_inactive: bool = False`
\* of a function named in Depends(...): it has no Depends of its own, so it
\* is read from the query string, converted to bool, and a value that is no
\* boolean is a validation error
allow_inactive_parameter(raw) ==
    IF raw = Missing THEN [ok |-> TRUE, value |-> FALSE]
    ELSE IF raw.s \in {"true", "1"} THEN [ok |-> TRUE, value |-> TRUE]
    ELSE IF raw.s \in {"false", "0"} THEN [ok |-> TRUE, value |-> FALSE]
    ELSE [ok |-> FALSE, value |-> FALSE]

\* the guard declarations of the routes: the function in Depends(...), and
\* whether the route opted in to inactive principals (user-service
\* get_current_user_allow_inactive, which has no allow_inactive parameter
\* and passes allow_inactive=True itself)
RouteGuards ==
    { [svc |-> "staff", guard |-> "get_current_user", opted_in |-> FALSE,
       allowed_roles |-> {}],
      [svc |-> "user", guard |-> "require_role", opted_in |-> FALSE,
       allowed_roles |-> {R_admin}],
      [svc |-> "user", guard |-> "get_current_user", opted_in |-> TRUE,
       allowed_roles |-> {}],
      [svc |-> "test", guard |-> "get_current_user_id", opted_in |-> FALSE,
       allowed_roles |-> {}],
      [svc |-> "report", guard |-> "get_current_user_id", opted_in |-> FALSE,
       allowed_roles |-> {}] }

\* the guard of route g, run in the given mode
RunGuard(g, token, db, allow_inactive, t) ==
    CASE g.guard = "require_role" ->
             require_role(g.svc, g.allowed_roles, token, db, allow_inactive, t)
      [] g.guard = "get_current_user" ->
             get_current_user(g.svc, token, db, allow_inactive, t)
      [] g.guard = "get_current_user_id" ->
             get_current_user_id(g.svc, token, allow_inactive, t)

\* the guard of route g on a request: a route that opted in calls the guard
\* with allow_inactive=True; on the others the framework calls the guard
\* function with the parameters it read from the request
resolve_guard(g, token, db, raw, t) ==
    IF g.opted_in THEN RunGuard(g, token, db, TRUE, t)
    ELSE LET p == allow_inactive_parameter(raw) IN
         IF ~p.ok THEN Reject(422, "bool_parsing", FALSE)
         ELSE RunGuard(g, token, db, p.value, t)

\* a request with a bearer token of the set T reaches a guarded route, with
\* any query string
GuardedRoute(T) ==
    /\ req = Idle
    /\ UNCHANGED <<users, tok, now, routes, tasks, posted, records, calls>>
    /\ \E g \in RouteGuards, token \in T, raw \in AllowInactiveParams :
        /\ token.form = "none" => g.svc = "test"
        /\ req' = [kind |-> "route", svc |-> g.svc, guard |-> g,
                   token |-> token, allow_inactive |-> raw]
        /\ resp' = resolve_guard(g, token, users, raw, now)

NextRoute ==
    \/ Tick
    \/ Complete
    \/ GuardedRoute(GuardTokens)

\* guarded routes of every service, on any bearer string and query string
SpecRoute == InitReq /\ [][NextRoute]_vars

\* C28: a request to a route that did not opt in to inactive principals is
\* rejected whenever the guard in its normal mode (allow_inactive=False)
\* answers 403 for an inactive principal, whatever the query string holds.
C28_RequestCannotSelectInactiveMode ==
    ( /\ req.kind = "route"
      /\ ~req.guard.opted_in
      /\ LET site == RunGuard(req.guard, req.token, users, FALSE, now) IN
            site.status = 403 /\ site.detail \in {D_INACTIVE, D_INACTIVE_CONTACT} )
        => resp.status \in {401, 403, 422}


-----------------------------------------------------------------------------
(* medical-image-service: concurrent uploads *)

\* max_retries of create_medical_image
max_retries == 10

\* the file names of the uploads, as their parts between dots
Filenames == {<<"scan">>, <<"scan", "png">>, <<"chest", "png">>}

\* file.filename.split('.')[-1] if '.' in file.filename else ''
file_extension(filename) ==
    IF Len(filename) > 1 THEN filename[Len(filename)] ELSE ""

\* generate_image_id: the number after the greatest image_id, or 1; the
\* loop that follows finds that id free in the rows it reads
generate_image_id(db) ==
    LET nums == {r.image_id[2] : r \in Rows(db, "IMAGE")}
    IN  IF nums = {} THEN 1
        ELSE (CHOOSE m \in nums : \A k \in nums : k <= m) + 1

\* an object of the bucket settings.MINIO_BUCKET_NAME; content names the
\* request whose bytes it holds
StoredObject(object_name, content) ==
    [entity_type |-> "OBJECT", object_name |-> object_name,
     content |-> content]

\* minio_client.put_object(bucket, object_name, ...): an object of that
\* name is replaced
put_object(db, object_name, content) ==
    {r \in db : ~(r.entity_type = "OBJECT" /\ r.object_name = object_name)}
        \cup {StoredObject(object_name, content)}

\* minio_client.remove_object(bucket, object_name)
remove_object(db, object_name) ==
    {r \in db : ~(r.entity_type = "OBJECT" /\ r.object_name = object_name)}

\* upload_image_to_minio: the name of the object and the URL it returns
object_name_of(image_id, filename) == <<image_id, file_extension(filename)>>
image_url_of(object_name) == <<"bucket", object_name>>

\* db_image of create_medical_image, with the request that made it
db_image(image_id, image_url, file_name, call) ==
    [entity_type |-> "IMAGE", image_id |-> image_id, image_url |-> image_url,
     file_name |-> file_name, call |-> call]

\* an upload that has not been sent
NoUpload ==
    [pc |-> "idle", filename |-> <<>>, image_id |-> <<>>, image_url |-> <<>>,
     retry_count |-> 0, status |-> 0]

\* POST /api/v1/images of request i reaches create_medical_image
BeginUpload(i) ==
    /\ calls[i].pc = "idle"
    /\ UNCHANGED <<users, tok, now, req, resp, routes, tasks, posted, records>>
    /\ \E filename \in Filenames :
        calls' = [calls EXCEPT ![i].pc = "generate",
                               ![i].filename = filename]

\* image_id = generate_image_id(db), in the loop of create_medical_image
GenerateImageId(i) ==
    /\ calls[i].pc = "generate"
    /\ UNCHANGED <<users, tok, now, req, resp, routes, tasks, posted, records>>
    /\ calls' = [calls EXCEPT
                    ![i].image_id =
                        RecordIdStr("IMG-", generate_image_id(records)),
                    ![i].pc = "upload"]

\* image_url = upload_image_to_minio(file, str(image_id)); when put_object
\* raises, image_url is still None and the request is answered 500
UploadImageToMinio(i) ==
    /\ calls[i].pc = "upload"
    /\ UNCHANGED <<users, tok, now, req, resp, routes, tasks, posted>>
    /\ \E put_ok \in BOOLEAN :
        LET object_name == object_name_of(calls[i].image_id, calls[i].filename)
        IN  IF put_ok
            THEN /\ records' = put_object(records, object_name, i)
                 /\ calls' = [calls EXCEPT
                                 ![i].image_url = image_url_of(object_name),
                                 ![i].pc = "commit"]
            ELSE /\ records' = records
                 /\ calls' = [calls EXCEPT ![i].pc = "failed",
                                           ![i].status = 500]

\* db.add(db_image); db.commit(): the primary key refuses an image_id that
\* is in the table, and the IntegrityError handler removes the object named
\* by image_url (remove_ok: a failure of that call is passed over), then
\* tries again or gives up after max_retries
CommitImage(i) ==
    /\ calls[i].pc = "commit"
    /\ UNCHANGED <<users, tok, now, req, resp, routes, tasks, posted>>
    /\ LET c == calls[i]
           taken == \E r \in Rows(records, "IMAGE") : r.image_id = c.image_id
           object_name == c.image_url[Len(c.image_url)]
       IN  IF ~taken
           THEN /\ records' = records \cup
                        {db_image(c.image_id, c.image_url, c.filename, i)}
                /\ calls' = [calls EXCEPT ![i].pc = "done", ![i].status = 201]
           ELSE \E remove_ok \in BOOLEAN :
                /\ records' = IF remove_ok
                              THEN remove_object(records, object_name)
                              ELSE records
                /\ calls' =
                     IF c.retry_count + 1 >= max_retries
                     THEN [calls EXCEPT ![i].pc = "failed",
                                        ![i].status = 500,
                                        ![i].retry_count = c.retry_count + 1]
                     ELSE [calls EXCEPT ![i].pc = "generate",
                                        ![i].retry_count = c.retry_count + 1,
                                        ![i].image_url = <<>>,
                                        ![i].image_id = <<>>]

InitImg ==
    /\ users = {}
    /\ tok = NoToken
    /\ now = 0
    /\ req = Idle
    /\ resp = NoResponse
    /\ routes = <<>>
    /\ tasks = <<>>
    /\ posted = <<>>
    /\ records = {}
    /\ calls = [i \in 1..MaxCalls |-> NoUpload]

NextImg ==
    \E i \in 1..MaxCalls :
        \/ BeginUpload(i)
        \/ GenerateImageId(i)
        \/ UploadImageToMinio(i)
        \/ CommitImage(i)

\* concurrent uploads to medical-image-service
SpecImg == InitImg /\ [][NextImg]_vars

\* C29: once the concurrent create_medical_image calls are over, every
\* medical image row refers to an object that is stored and that holds the
\* bytes of the request that created the row.
C29_ImageRowsKeepTheirObjects ==
    (\A i \in 1..MaxCalls : calls[i].pc \in {"idle", "done", "failed"})
        => \A r \in Rows(records, "IMAGE") :
              StoredObject(r.image_url[Len(r.image_url)], r.call) \in records


-----------------------------------------------------------------------------
(* diagnostic-report-service: status and finalization of a report *)

\* the values of the enum ReportStatus
ReportStatus == {"preliminary", "confirmed", "billed", "paid", "cancelled"}

\* a row of the diagnostic_reports table, with the columns the updates read
\* and write
ReportRow(report_id, patient_id, medical_test_id, diagnosis, status, finalized_at, updated_at) ==
    [entity_type |-> "REPORT", report_id |-> report_id,
     patient_id |-> patient_id, medical_test_id |-> medical_test_id,
     diagnosis |-> diagnosis, status |-> status,
     finalized_at |-> finalized_at, updated_at |-> updated_at]

\* a row of medical_test_service.medical_tests
MedicalTest(medical_test_id, status) ==
    [entity_type |-> "TEST", medical_test_id |-> medical_test_id,
     status |-> status]

\* the UPDATE of update_medical_test_status
update_medical_test_status(db, medical_test_id, new_status) ==
    {IF r.entity_type = "TEST" /\ r.medical_test_id = medical_test_id
     THEN [r EXCEPT !.status = new_status] ELSE r : r \in db}

\* the table with the row of report_id replaced
StoreReport(db, report) ==
    {IF r.entity_type = "REPORT" /\ r.report_id = report.report_id
     THEN report ELSE r : r \in db}

\* report_update.dict(exclude_unset=True) of the bodies a PUT may carry
DiagnosticReportUpdates ==
    {<<>>} \cup {[status |-> s] : s \in {None} \cup {JStr(v) : v \in ReportStatus}}
        \cup {[diagnosis |-> JStr(<<"f", "l", "u">>)],
              [diagnosis |-> JStr(<<"f", "l", "u">>), status |-> JStr("confirmed")]}

\* update_diagnostic_report on a report that exists: finalized_at is set
\* when the body's status is confirmed, the setattr loop passes over that
\* status, updated_at is set; update_medical_test_status commits the session
\* (test_ok) or rolls it back, and with it the changes made to the report;
\* the patient's conditions are read by a column the table does not have,
\* which the except clause passes over; db.commit().  A member of
\* ReportStatus is a non-empty string, so `if new_status` asks whether the
\* body has a status that is not null
update_diagnostic_report(db, report, update_data, t, test_ok) ==
    LET new_status == IF "status" \in DOMAIN update_data
                      THEN update_data.status ELSE None
        status_changed_to_confirmed ==
            "status" \in DOMAIN update_data
                /\ update_data.status = JStr("confirmed")
        edited ==
            [field \in DOMAIN report |->
                IF field = "finalized_at" /\ status_changed_to_confirmed
                THEN JInt(t)
                ELSE IF field = "updated_at" THEN JInt(t)
                ELSE IF field \in DOMAIN update_data
                        /\ (field # "status"
                            \/ update_data[field] # JStr("confirmed"))
                THEN update_data[field]
                ELSE report[field]]
        test_status ==
            IF new_status \in {JStr("confirmed"), JStr("billed")}
            THEN "reporting"
            ELSE IF new_status = JStr("cancelled") THEN "completed"
            ELSE ""
    IN  IF new_status # None /\ Truthy(edited.medical_test_id)
           /\ test_status # ""
        THEN IF test_ok
             THEN update_medical_test_status(StoreReport(db, edited),
                                             edited.medical_test_id.s,
                                             test_status)
             ELSE db
        ELSE StoreReport(db, edited)

\* the patient's conditions with the diagnosis appended, as finalize_report
\* writes them on a connection of its own
append_condition(db, patient_id, diagnosis) ==
    {IF r.entity_type = "PATIENT" /\ r.patient_id = patient_id
     THEN [r EXCEPT !.conditions = @ \cup {diagnosis}] ELSE r : r \in db}

\* finalize_report on a report that exists
finalize_report(db, report, t, test_ok) ==
    LET edited == [report EXCEPT !.status = JStr("confirmed"),
                                 !.finalized_at = JInt(t),
                                 !.updated_at = JInt(t)]
        after_test ==
            IF Truthy(report.medical_test_id)
            THEN IF test_ok
                 THEN update_medical_test_status(StoreReport(db, edited),
                                                 report.medical_test_id.s,
                                                 "reporting")
                 ELSE db
            ELSE StoreReport(db, edited)
    IN  IF Truthy(report.diagnosis)
        THEN append_condition(after_test, report.patient_id, report.diagnosis.s)
        ELSE after_test

\* the report of that id, as get_diagnostic_report finds it
ReportsOf(db, report_id) ==
    {r \in Rows(db, "REPORT") : r.report_id = report_id}

\* PUT /api/v1/reports/{report_id} with the client's token, guarded by
\* require_role("radiologist", "doctor", "cashier")
UpdateReport ==
    /\ req = Idle
    /\ UNCHANGED <<users, tok, now, routes, posted, calls>>
    /\ tasks' = <<>>
    /\ \E n \in 1..MaxRecordId + 1, update_data \in DiagnosticReportUpdates,
          test_ok \in BOOLEAN :
        LET report_id == RecordIdStr("RPT-", n)
            current_user_id ==
                report_require_role({R_radiologist, R_doctor, R_cashier},
                                    tok, now)
            found == ReportsOf(records, report_id)
        IN  /\ req' = [kind |-> "update_report", report_id |-> report_id,
                       update_data |-> update_data, test_ok |-> test_ok]
            /\ IF current_user_id.status # 200
               THEN resp' = current_user_id /\ records' = records
               ELSE IF found = {}
               THEN /\ resp' = Response(404, "Diagnostic report not found")
                    /\ records' = records
               ELSE /\ records' =
                         update_diagnostic_report(
                             records, CHOOSE r \in found : TRUE, update_data,
                             now, test_ok)
                    /\ resp' = Response(200, "")

\* POST /api/v1/reports/{report_id}/finalize with the client's token,
\* guarded by require_role("radiologist", "doctor")
FinalizeReport ==
    /\ req = Idle
    /\ UNCHANGED <<users, tok, now, routes, posted, calls>>
    /\ tasks' = <<>>
    /\ \E n \in 1..MaxRecordId + 1, test_ok \in BOOLEAN :
        LET report_id == RecordIdStr("RPT-", n)
            current_user_id ==
                report_require_role({R_radiologist, R_doctor}, tok, now)
            found == ReportsOf(records, report_id)
        IN  /\ req' = [kind |-> "finalize_report", report_id |-> report_id,
                       test_ok |-> test_ok]
            /\ IF current_user_id.status # 200
               THEN resp' = current_user_id /\ records' = records
               ELSE IF found = {}
               THEN /\ resp' = Response(404, "Diagnostic report not found")
                    /\ records' = records
               ELSE /\ records' =
                         finalize_report(records, CHOOSE r \in found : TRUE,
                                         now, test_ok)
                    /\ resp' = Response(200, "")

\* bearer tokens of the clients of diagnostic-report-service
ReportTokens ==
    { Jws(MkClaims(JStr(UserIdStr(1)), JStr(role), JBool(TRUE), JInt(0),
                   Missing, JInt(CraftedExp), JStr(ISSUER)), SECRET_KEY) :
        role \in {R_doctor, R_cashier, R_patient} }

\* a preliminary report of a medical test with a diagnosis, and one with
\* neither, as create_diagnostic_report leaves them
InitRpt ==
    /\ users = {}
    /\ tok \in ReportTokens
    /\ now = 0
    /\ req = Idle
    /\ resp = NoResponse
    /\ routes = <<>>
    /\ tasks = <<>>
    /\ posted = <<>>
    /\ calls = <<>>
    /\ records =
        { Patient(RecordIdStr("PAT-", 1), UserIdStr(1), {}, 0),
          MedicalTest(RecordIdStr("MT-", 1), "requested"),
          ReportRow(RecordIdStr("RPT-", 1), RecordIdStr("PAT-", 1),
                    JStr(RecordIdStr("MT-", 1)), JStr(<<"f", "l", "u">>),
                    JStr("preliminary"), None, None),
          ReportRow(RecordIdStr("RPT-", 2), RecordIdStr("PAT-", 1), None,
                    None, JStr("preliminary"), None, None) }

NextRpt ==
    \/ Tick
    \/ Complete
    \/ UpdateReport
    \/ FinalizeReport

\* updates and finalizations of diagnostic reports
SpecRpt == InitRpt /\ [][NextRpt]_vars

\* C30: after an accepted update_diagnostic_report that carries a status,
\* the stored status is the one passed (confirmed included), and after an
\* accepted finalize_report it is confirmed; a report has finalized_at set
\* only with one of those two.
C30_StatusStoredAsGiven ==
    /\ ( /\ req.kind = "update_report"
         /\ resp.status = 200
         /\ "status" \in DOMAIN req.update_data
         /\ req.test_ok )
          => \A r \in ReportsOf(records, req.report_id) :
                r.status = req.update_data.status
    /\ (req.kind = "finalize_report" /\ resp.status = 200 /\ req.test_ok)
          => \A r \in ReportsOf(records, req.report_id) :
                r.status = JStr("confirmed")

=============================================================================
